---- MODULE Spec2Model ----
(***************************************************************************)
(* Model of the clip-extraction service (mp4-clipper/server.js, the        *)
(* job-tracking /clip handler and its helpers).                            *)
(*                                                                         *)
(* Times are exact decimals counted in microseconds (Sec ticks per         *)
(* second); binary floating-point rounding of the JavaScript numbers is    *)
(* not modelled.  A JavaScript number is a record [k, v]: k = "num" with   *)
(* the value v in ticks, or k = "nan" / k = "inf".                         *)
(***************************************************************************)
EXTENDS Integers, Sequences, FiniteSets, TLC

\* ------------------------------------------------------------- bounds
\* longest manifest (in lines) the playlist specifications draw
MaxLines == 4
\* most output chunks one tool process writes
MaxOut == 2
\* most chunks of diagnostic output one tool process delivers
MaxErr == 2

\* ------------------------------------------------------------- numbers
Sec == 10 ^ 6
Milli == Sec \div 1000

Num(n) == [k |-> "num", v |-> n]
NaN == [k |-> "nan", v |-> 0]
Infinity == [k |-> "inf", v |-> 0]

\* Number.isFinite / isFinite on a number value
isFinite(x) == x.k = "num"

Min(a, b) == IF a <= b THEN a ELSE b
Max(a, b) == IF a >= b THEN a ELSE b

\* +(x).toFixed(3): x rounded to the nearest thousandth, a tie going up in
\* magnitude
toFixed3(x) ==
    IF x >= 0 THEN ((x + Milli \div 2) \div Milli) * Milli
    ELSE 0 - ((((0 - x) + Milli \div 2) \div Milli) * Milli)

\* ------------------------------------------------------------- manifest text
\* A manifest is the sequence of its lines (the result of split(/\r?\n/)); a
\* line is a sequence of characters, the literal "#EXTINF:" being one symbol.
\* BigRun stands for a run of digits too long for a finite double.
ExtInf == "#EXTINF:"
BigRun == "9{400}"
DigitChars == {"0", "1", "2", "3", "4", "5", "6", "7", "8", "9"}

DigitVal(c) ==
    CASE c = "0" -> 0 [] c = "1" -> 1 [] c = "2" -> 2 [] c = "3" -> 3
      [] c = "4" -> 4 [] c = "5" -> 5 [] c = "6" -> 6 [] c = "7" -> 7
      [] c = "8" -> 8 [] OTHER -> 9

\* \d
IsDigit(c) == c \in DigitChars \cup {BigRun}
\* [\d.]
IsTokChar(c) == IsDigit(c) \/ c = "."

RECURSIVE DigitSpan(_, _)
\* number of consecutive digits of s from position i on
DigitSpan(s, i) ==
    IF i > Len(s) THEN 0
    ELSE IF ~IsDigit(s[i]) THEN 0
    ELSE 1 + DigitSpan(s, i + 1)

RECURSIVE TokSpan(_, _)
\* number of consecutive [\d.] characters of s from position i on
TokSpan(s, i) ==
    IF i > Len(s) THEN 0
    ELSE IF ~IsTokChar(s[i]) THEN 0
    ELSE 1 + TokSpan(s, i + 1)

RECURSIVE IntVal(_, _, _)
\* the n digits of s from position i on, read as a decimal integer
IntVal(s, i, n) ==
    IF n = 0 THEN 0
    ELSE IntVal(s, i, n - 1) * 10 + DigitVal(s[i + n - 1])

RECURSIVE FracVal(_, _, _)
\* the n digits of s from position i on, read as a decimal fraction, in ticks
\* (digits below one tick are dropped)
FracVal(s, i, n) ==
    IF n = 0 THEN 0
    ELSE FracVal(s, i, n - 1) + DigitVal(s[i + n - 1]) * (Sec \div (10 ^ n))

\* parseFloat on a string of digits and dots: the longest prefix that is a
\* decimal literal (digits, then optionally a dot and digits, with at least one
\* digit), NaN when there is none
parseFloat(tok) ==
    LET ni == DigitSpan(tok, 1)
        hasDot == ni < Len(tok) /\ tok[ni + 1] = "."
        nf == IF hasDot THEN DigitSpan(tok, ni + 2) ELSE 0
    IN  IF ni + nf = 0 THEN NaN
        ELSE IF \E p \in 1..ni : tok[p] = BigRun THEN Infinity
        ELSE Num(IntVal(tok, 1, ni) * Sec + FracVal(tok, ni + 2, Min(nf, 6)))

\* line.match(/^#EXTINF:([\d.]+)/) is not null
Matches(line) ==
    /\ Len(line) >= 2
    /\ line[1] = ExtInf
    /\ IsTokChar(line[2])

\* m[1] of that match: the greedy run of [\d.]
Token(line) == SubSeq(line, 2, 1 + TokSpan(line, 2))

RECURSIVE parseLoop(_, _, _, _)
parseLoop(lines, i, acc, b) ==
    IF i > Len(lines) THEN b
    ELSE IF Matches(lines[i])
    THEN LET dur == parseFloat(Token(lines[i]))
             acc2 == acc + (IF isFinite(dur) THEN dur.v ELSE 0)
         IN  parseLoop(lines, i + 1, acc2, Append(b, acc2))
    ELSE parseLoop(lines, i + 1, acc, b)

RECURSIVE parseLoopSkip(_, _, _, _)
\* a parser that drops the entries it cannot read instead of adding 0
parseLoopSkip(lines, i, acc, b) ==
    IF i > Len(lines) THEN b
    ELSE IF Matches(lines[i]) /\ isFinite(parseFloat(Token(lines[i])))
    THEN LET acc2 == acc + parseFloat(Token(lines[i])).v
         IN  parseLoopSkip(lines, i + 1, acc2, Append(b, acc2))
    ELSE parseLoopSkip(lines, i + 1, acc, b)

parseBoundariesSkip(m3u8Text) == parseLoopSkip(m3u8Text, 1, 0, <<0>>)

parseBoundaries(m3u8Text) == parseLoop(m3u8Text, 1, 0, <<0>>)

\* ------------------------------------------------------------- boundaries
\* b[i] with the source's 0-based index
At(b, i) == b[i + 1]

RECURSIVE floorLoop(_, _, _, _)
floorLoop(b, t, lo, hi) ==
    IF lo < hi
    THEN LET mid == (lo + hi + 1) \div 2
         IN  IF At(b, mid) <= t THEN floorLoop(b, t, mid, hi)
             ELSE floorLoop(b, t, lo, mid - 1)
    ELSE At(b, lo)

RECURSIVE floorLoopStrict(_, _, _, _)
\* the search with < in place of <=: a boundary equal to t is passed over
floorLoopStrict(b, t, lo, hi) ==
    IF lo < hi
    THEN LET mid == (lo + hi + 1) \div 2
         IN  IF At(b, mid) < t THEN floorLoopStrict(b, t, mid, hi)
             ELSE floorLoopStrict(b, t, lo, mid - 1)
    ELSE At(b, lo)

floorBoundaryStrict(b, t) == floorLoopStrict(b, t, 0, Len(b) - 1)

floorBoundary(b, t) == floorLoop(b, t, 0, Len(b) - 1)

RECURSIVE ceilLoop(_, _, _, _)
ceilLoop(b, t, lo, hi) ==
    IF lo < hi
    THEN LET mid == (lo + hi) \div 2
         IN  IF At(b, mid) >= t THEN ceilLoop(b, t, lo, mid)
             ELSE ceilLoop(b, t, mid + 1, hi)
    ELSE At(b, lo)

\* the ceiling written with the floor's search
ceilBoundaryAsFloor(b, t) == floorLoop(b, t, 0, Len(b) - 1)

ceilBoundary(b, t) == ceilLoop(b, t, 0, Len(b) - 1)

\* b.indexOf(v), 0-based, -1 when absent
indexOf(b, v) ==
    IF \E i \in 1..Len(b) : b[i] = v
    THEN (CHOOSE i \in 1..Len(b) : b[i] = v /\ \A j \in 1..(i - 1) : b[j] # v) - 1
    ELSE -1

\* the snapping with the requested end used as it came: neither clamped nor
\* snapped
snapWindowRawEnd(b, start, end) ==
    LET total == b[Len(b)]
        sReq == Max(0, Min(start, Max(0, total - Milli)))
        eReq == Max(0, end)
        sSnap == floorBoundary(b, sReq)
    IN  [total |-> total, sReq |-> sReq, eReq |-> eReq, sSnap |-> sSnap,
         eCeil |-> eReq, eSnap |-> eReq, dur |-> toFixed3(eReq - sSnap)]

\* the snapping with the start rounded up to a boundary instead of down
snapWindowCeilStart(b, start, end) ==
    LET total == b[Len(b)]
        sReq == Max(0, Min(start, Max(0, total - Milli)))
        eReq == Max(0, Min(end, total))
        sSnap == ceilBoundary(b, sReq)
        eCeil == ceilBoundary(b, eReq)
        idx == indexOf(b, sSnap)
        eSnap == IF eCeil <= sSnap THEN At(b, Min(idx + 1, Len(b) - 1)) ELSE eCeil
    IN  [total |-> total, sReq |-> sReq, eReq |-> eReq, sSnap |-> sSnap,
         eCeil |-> eCeil, eSnap |-> eSnap, dur |-> toFixed3(eSnap - sSnap)]

\* the clamping and snapping of /clip; eCeil is the ceiling before the
\* at-least-one-segment step
snapWindow(b, start, end) ==
    LET total == b[Len(b)]
        sReq == Max(0, Min(start, Max(0, total - Milli)))
        eReq == Max(0, Min(end, total))
        sSnap == floorBoundary(b, sReq)
        eCeil == ceilBoundary(b, eReq)
        idx == indexOf(b, sSnap)
        eSnap == IF eCeil <= sSnap THEN At(b, Min(idx + 1, Len(b) - 1)) ELSE eCeil
    IN  [total |-> total, sReq |-> sReq, eReq |-> eReq, sSnap |-> sSnap,
         eCeil |-> eCeil, eSnap |-> eSnap, dur |-> toFixed3(eSnap - sSnap)]

\* the request check with end < start in place of end <= start
badParamsLax(start, end) ==
    ~isFinite(start) \/ ~isFinite(end) \/ end.v < start.v

\* the request check of /clip on start and end
badParams(start, end) ==
    \/ ~isFinite(start)
    \/ ~isFinite(end)
    \/ end.v <= start.v

\* ------------------------------------------------------------- job store
\* A Map is a function whose domain is the set of its keys; an object is a
\* record; a string is a sequence of symbols ("" is << >>).
EmptyObj == [k \in {} |-> 0]
\* null, and NaN where a number is expected, as integers no number of the
\* program takes
Null == 0 - 1
NotANumber == 0 - 2

\* { ...f, ...g }
Merge(f, g) ==
    [k \in (DOMAIN f) \cup (DOMAIN g) |-> IF k \in DOMAIN g THEN g[k] ELSE f[k]]

\* map.set(key, val)
MapSet(map, key, val) ==
    [k \in (DOMAIN map) \cup {key} |-> IF k = key THEN val ELSE map[k]]

\* map.get(key) || {}
GetOrEmpty(map, key) == IF key \in DOMAIN map THEN map[key] ELSE EmptyObj

\* o.field, undefined read as {}
Field(o, f) == IF f \in DOMAIN o THEN o[f] ELSE EmptyObj

\* a fresh random identifier: one per request, never a caller-supplied one
makeJobId(r) == IF r = "r1" THEN "uuid-r1" ELSE "uuid-r2"

initJob(J, jobId, seed) ==
    MapSet(J, jobId,
           Merge([id |-> jobId,
                  status |-> "starting",
                  error |-> << >>,
                  requested |-> [start |-> 0, end |-> 0],
                  snapped |-> [start |-> 0, end |-> 0, duration |-> 0],
                  progress |-> [timeMs |-> 0, pct |-> 0],
                  transfer |-> [bytes |-> 0, totalBytes |-> Null]],
                 seed))

NestedFields == {"requested", "snapped", "progress", "transfer"}

patchJob(J, jobId, patch) ==
    LET cur == GetOrEmpty(J, jobId)
        job == Merge(cur, patch)
    IN  MapSet(J, jobId,
               [k \in DOMAIN job |->
                   IF k \in NestedFields \cap DOMAIN patch
                   THEN Merge(Field(cur, k), patch[k])
                   ELSE job[k]])

\* jobs.get(jobId)?.progress?.pct || 0
PctOrZero(J, jobId) ==
    LET prog == Field(GetOrEmpty(J, jobId), "progress")
    IN  IF "pct" \in DOMAIN prog
        THEN (IF prog.pct = NotANumber THEN 0 ELSE prog.pct)
        ELSE 0

endJob(J, jobId, status, error) ==
    patchJob(J, jobId,
             [status |-> status,
              error |-> error,
              progress |-> Merge(Field(GetOrEmpty(J, jobId), "progress"),
                                 [pct |-> IF status = "done" THEN 100
                                          ELSE PctOrZero(J, jobId)])])

\* ------------------------------------------------------------- response
\* statusCode is the property res.status() sets; sentCode is the status that
\* went out with the headers (0 while none went out); body counts the media
\* bytes written; text is the plain-text body of an error answer.
NewResponse ==
    [statusCode |-> 200, headersSent |-> FALSE, sentCode |-> 0, ended |-> FALSE,
     finished |-> FALSE, body |-> 0, text |-> << >>, length |-> Null]

\* res.status(c).type("text").end(msg): type() sets a header, which throws
\* once the headers went out
SendTextThrows(rs) == rs.headersSent
SendText(rs, c, msg) ==
    IF rs.headersSent THEN [rs EXCEPT !.statusCode = c]
    ELSE [rs EXCEPT !.statusCode = c, !.headersSent = TRUE, !.sentCode = c,
                    !.ended = TRUE, !.text = msg]

\* res.status(200) and the res.setHeader calls: setHeader throws once the
\* headers went out
SetOkHeadersThrows(rs) == rs.headersSent
SetOkHeaders(rs) == [rs EXCEPT !.statusCode = 200]

\* res.write(chunk) of n bytes: nothing is written after end()
ResWrite(rs, n) ==
    IF rs.ended THEN rs
    ELSE [rs EXCEPT !.headersSent = TRUE,
                    !.sentCode = IF rs.headersSent THEN rs.sentCode ELSE rs.statusCode,
                    !.body = rs.body + n]

\* res.end()
ResEnd(rs) ==
    IF rs.ended THEN rs
    ELSE [rs EXCEPT !.headersSent = TRUE,
                    !.sentCode = IF rs.headersSent THEN rs.sentCode ELSE rs.statusCode,
                    !.ended = TRUE]

\* ------------------------------------------------------------- progress feed
\* The tool's diagnostic output is a sequence of symbols: "\n", " ", "=", "-",
\* digits, and the words of the feed ("out_time_ms", "progress", "end", ...),
\* each word one symbol.
IsSpace(c) == c \in {" ", "\r", "\n"}

RECURSIVE IndexOfNL(_, _)
\* s.indexOf("\n") from position i on: the position, 0 when there is none
IndexOfNL(s, i) ==
    IF i > Len(s) THEN 0
    ELSE IF s[i] = "\n" THEN i
    ELSE IndexOfNL(s, i + 1)

RECURSIVE TrimLeft(_)
TrimLeft(s) ==
    IF s = << >> THEN s
    ELSE IF IsSpace(Head(s)) THEN TrimLeft(Tail(s))
    ELSE s

RECURSIVE TrimRight(_)
TrimRight(s) ==
    IF s = << >> THEN s
    ELSE IF IsSpace(s[Len(s)]) THEN TrimRight(SubSeq(s, 1, Len(s) - 1))
    ELSE s

\* s.trim()
Trim(s) == TrimRight(TrimLeft(s))

RECURSIVE SplitEq(_, _, _)
\* line.split("="): parts holds the finished parts, cur the one being read
SplitEq(s, parts, cur) ==
    IF s = << >> THEN Append(parts, cur)
    ELSE IF Head(s) = "=" THEN SplitEq(Tail(s), Append(parts, cur), << >>)
    ELSE SplitEq(Tail(s), parts, Append(cur, Head(s)))

\* Number(val) on a string: blank is 0, an optionally signed run of digits is
\* its value, anything else NaN
NumberOf(val) ==
    LET t == Trim(val)
        neg == t # << >> /\ Head(t) = "-"
        d == IF neg THEN Tail(t) ELSE t
    IN  IF t = << >> THEN Num(0)
        ELSE IF d # << >> /\ \A i \in 1..Len(d) : d[i] \in DigitChars
        THEN Num(IF neg THEN 0 - IntVal(d, 1, Len(d)) ELSE IntVal(d, 1, Len(d)))
        ELSE NaN

\* the percentage clamped to 100 instead of 99
PctOfTo100(ms, dur) ==
    LET durMs == dur \div Milli
    IN  IF durMs = 0
        THEN (IF ms = 0 THEN NotANumber ELSE IF ms > 0 THEN 100 ELSE 0)
        ELSE Max(0, Min(100, (200 * ms + durMs) \div (2 * durMs)))

\* Math.max(0, Math.min(99, Math.round((ms / (dur * 1000)) * 100))), dur in
\* ticks: a zero duration divides to NaN or to an infinity
PctOf(ms, dur) ==
    LET durMs == dur \div Milli
    IN  IF durMs = 0
        THEN (IF ms = 0 THEN NotANumber ELSE IF ms > 0 THEN 99 ELSE 0)
        ELSE Max(0, Min(99, (200 * ms + durMs) \div (2 * durMs)))

\* the handling of one complete line of the feed
progLine(J, jobId, dur, line) ==
    LET kv == SplitEq(line, << >>, << >>)
    IN  IF Len(kv) # 2 THEN J
        ELSE IF kv[1] = <<"out_time_ms">>
        THEN LET n == NumberOf(kv[2])
                 ms == IF isFinite(n) THEN n.v ELSE 0
             IN  patchJob(J, jobId, [progress |-> [timeMs |-> ms, pct |-> PctOf(ms, dur)]])
        ELSE IF kv[1] = <<"progress">> /\ kv[2] = <<"end">>
        THEN patchJob(J, jobId,
                      [progress |-> Merge(Field(GetOrEmpty(J, jobId), "progress"),
                                          [pct |-> 100])])
        ELSE J

RECURSIVE progLoop(_, _, _, _)
\* the while loop over progBuf: [jobs, buf] once no "\n" is left
progLoop(J, jobId, dur, buf) ==
    LET idx == IndexOfNL(buf, 1)
    IN  IF idx = 0 THEN [jobs |-> J, buf |-> buf]
        ELSE progLoop(progLine(J, jobId, dur, Trim(SubSeq(buf, 1, idx - 1))),
                      jobId, dur, SubSeq(buf, idx + 1, Len(buf)))

\* A symbol of a text stands for one character, a word of the feed for its
\* letters, LongRun for a run of 600 characters of diagnostic text.
LongRun == "x{600}"
ExitedMsg == "ffmpeg exited. code signal"
CharLen(c) ==
    CASE c = LongRun -> 600
      [] c = "out_time_ms" -> 11
      [] c = "progress" -> 8
      [] c = "end" -> 3
      [] c = "Server returned 404" -> 19
      [] c = ExitedMsg -> 37
      [] OTHER -> 1

RECURSIVE Slice(_, _)
\* s.slice(0, n), n counted in characters: a symbol that is cut leaves one
\* "?" per character kept
Slice(s, n) ==
    IF s = << >> \/ n <= 0 THEN << >>
    ELSE IF CharLen(Head(s)) <= n
    THEN <<Head(s)>> \o Slice(Tail(s), n - CharLen(Head(s)))
    ELSE [i \in 1..n |-> "?"]

\* the message of the exit handler without its slice
ExitMsgWhole(errLog) ==
    LET t == Trim(errLog)
    IN  IF t = << >> THEN <<ExitedMsg>> ELSE t

\* (errLog.trim() || `ffmpeg exited. code=.. signal=..`).slice(0, 1800)
MaxMsg == 1800
ExitMsg(errLog) ==
    LET t == Trim(errLog)
        m == IF t = << >> THEN <<ExitedMsg>> ELSE t
    IN  Slice(m, MaxMsg)

\* ------------------------------------------------------------- state
VARIABLES
    m3u8,        \* the manifest text of the playlist specifications
    qStart,      \* Number(req.query.start || 0)
    qEnd,        \* Number(req.query.end || 0)
    boundaries,  \* parseBoundaries' result
    window,      \* the clamped and snapped window
    stage,       \* how far the playlist specifications got
    BASE,        \* the origin BASE is configured
    forceSolid,  \* FORCE_SOLID
    jobs,        \* the jobs Map
    phase,       \* per request: where the /clip handler stands
    rq,          \* per request: its query and headers
    aborted,     \* per request: the client went away
    loc,         \* per request: the handler's local variables
    ff,          \* per request: the tool process
    res,         \* per request: the response
    fsx,         \* per request: the scratch file and its read stream
    thrown,      \* per request: a callback of it threw
    sseClients,  \* the sseClients Map: job id -> its Set, in insertion order
    sse,         \* per progress-stream connection: its state and what it got
    mutLog,      \* per job id: the snapshots its mutations made, in order
    sel,         \* the inputs of the delivery-mode selection and its result
    feed         \* a status text of the tool, read in chunks by the stderr handler

playlistVars == <<m3u8, qStart, qEnd, boundaries, window, stage>>
clipVars == <<BASE, forceSolid, jobs, phase, rq, aborted, loc, ff, res, fsx, thrown>>
sseVars == <<sseClients, sse, mutLog>>
modeVars == <<sel>>
feedVars == <<feed>>
vars == <<m3u8, qStart, qEnd, boundaries, window, stage,
          BASE, forceSolid, jobs, phase, rq, aborted, loc, ff, res, fsx, thrown,
          sseClients, sse, mutLog, sel, feed>>

NoWindow == [total |-> 0, sReq |-> 0, eReq |-> 0, sSnap |-> 0, eCeil |-> 0,
             eSnap |-> 0, dur |-> 0]

Reqs == {"r1", "r2"}

\* origin is what the playlist fetch came to: "none" before it, then "ok",
\* "http" (a status that is not ok) or "unreachable" (the fetch rejected)
NoQuery ==
    [code |-> << >>, start |-> NaN, end |-> NaN, text |-> << >>, origin |-> "none"]
NoLocals ==
    [jobId |-> "", wantSolid |-> FALSE, dur |-> 0, sentHeaders |-> FALSE,
     hadData |-> FALSE, errLog |-> << >>, progBuf |-> << >>, watchdog |-> "none",
     piped |-> FALSE]
NoProcess == [st |-> "none", out |-> << >>, nOut |-> 0, nErr |-> 0]
NoFiles == [tmp |-> "none", size |-> 0, rd |-> "none", left |-> 0, wait |-> "none"]

\* ------------------------------------------------------------- delivery mode
\* An environment value and a query value are a string or absent; a query
\* value is an array when the parameter is repeated. Text is a sequence of
\* words here, a word standing for the letters it is written with.
Unset == << >>

\* process.env.SOLID_MP4 === "1"
FORCE_SOLID(envValue) == envValue = <<"1">>

\* the word in lower case, for the words user agents are made of here
LowerCase(word) ==
    CASE word \in {"iPhone", "IPHONE", "iphone"} -> "iphone"
      [] word \in {"iPad", "ipad"} -> "ipad"
      [] word \in {"iPod", "IPOD"} -> "ipod"
      [] OTHER -> word

\* a test of the user agent that tells the letter cases apart
isIOSExactCase(ua) == \E i \in 1..Len(ua) : ua[i] \in {"iPhone", "iPad", "iPod"}

\* /iPhone|iPad|iPod/i.test(ua)
isIOS(ua) == \E i \in 1..Len(ua) : LowerCase(ua[i]) \in {"iphone", "ipad", "ipod"}

\* String(v || ""): an array is joined with commas
RECURSIVE StringOf(_)
StringOf(v) ==
    IF Len(v) <= 1 THEN v ELSE <<v[1], ",">> \o StringOf(Tail(v))

\* FORCE_SOLID || isIOS || String(req.query.solid || "") === "1"
wantSolid(force, ua, solid) == force \/ isIOS(ua) \/ StringOf(solid) = <<"1">>

EnvValues == {Unset, <<"1">>, <<"true">>, <<"0">>}
UserAgents ==
    {Unset, <<"Mozilla", "iPhone", "Safari">>, <<"ipad">>, <<"IPOD", "Mobile">>,
     <<"Mozilla", "Android", "Chrome">>, <<"Mozilla", "Macintosh", "Safari">>}
SolidParams == {Unset, <<"1">>, <<"0">>, <<"true">>, <<"1", "1">>}

NoSel == [SOLID_MP4 |-> Unset, ua |-> Unset, solid |-> Unset, chosen |-> FALSE,
          wantSolid |-> FALSE]

\* no delivery mode is being selected
ModeIdle == sel = NoSel

NoFeed == [text |-> << >>, pos |-> 0, dur |-> 0, jobs |-> EmptyObj, progBuf |-> << >>]

\* no status text is being read
FeedIdle == feed = NoFeed

\* the progress-stream connections, and the job ids they ask for: "a" is the
\* id /clip callers pass as job=a, "zz" an id no job ever gets
SseConns == {"s1", "s2"}
MutJobs == {"a"}
StreamIds == {"a", "zz"}

NoConn == [st |-> "idle", job |-> "", got |-> << >>, from |-> 0, threwAt |-> 0]

\* no progress stream is open, no job was mutated
SseIdle ==
    /\ sseClients = EmptyObj
    /\ sse = [c \in SseConns |-> NoConn]
    /\ mutLog = [j \in StreamIds |-> << >>]

\* no request is being served
ClipIdle ==
    /\ BASE = TRUE
    /\ forceSolid = FALSE
    /\ jobs = EmptyObj
    /\ phase = [r \in Reqs |-> "off"]
    /\ rq = [r \in Reqs |-> NoQuery]
    /\ aborted = [r \in Reqs |-> FALSE]
    /\ loc = [r \in Reqs |-> NoLocals]
    /\ ff = [r \in Reqs |-> NoProcess]
    /\ res = [r \in Reqs |-> NewResponse]
    /\ fsx = [r \in Reqs |-> NoFiles]
    /\ thrown = [r \in Reqs |-> FALSE]
    /\ SseIdle
    /\ ModeIdle
    /\ FeedIdle

\* ------------------------------------------------------------- inputs
L10 == <<ExtInf, "1", "0", ",">>
LSub == <<ExtInf, ".", "0", "0", "0", "4", ",">>
LDot == <<ExtInf, ".", ",">>
LBad == <<ExtInf, "x", ",">>
LMulti == <<ExtInf, "1", ".", "5", ".", "3", ",">>
LBig == <<ExtInf, BigRun, ",">>
LUri == <<"s", ".", "t", "s">>

ParseLines == {L10, LSub, LDot, LBad, LMulti, LBig, LUri}
SnapLines == {L10, LSub, LDot}

Manifests(lines) == UNION {[1..k -> lines] : k \in 0..MaxLines}

ReqTimes ==
    {0 - 5 * Sec, 0 - Sec, 0, 5 * Sec, 10 * Sec + 100, 10 * Sec + 300,
     12 * Sec, 20 * Sec, 22 * Sec, 100 * Sec, 700 * Sec}
ReqNums == {Num(t) : t \in ReqTimes} \cup {NaN}

\* ------------------------------------------------------------- parseBoundaries alone
ParseInit ==
    /\ m3u8 \in Manifests(ParseLines)
    /\ stage = "text"
    /\ boundaries = << >>
    /\ qStart = NaN
    /\ qEnd = NaN
    /\ window = NoWindow
    /\ ClipIdle

ParsePlaylist ==
    /\ stage = "text"
    /\ boundaries' = parseBoundaries(m3u8)
    /\ stage' = "parsed"
    /\ UNCHANGED <<m3u8, qStart, qEnd, window>>
    /\ UNCHANGED <<clipVars, sseVars, modeVars, feedVars>>

ParseNext == ParsePlaylist

ParseSpec == ParseInit /\ [][ParseNext]_vars

\* ------------------------------------------------------------- the window of a request
SnapInit ==
    /\ m3u8 \in Manifests(SnapLines)
    /\ qStart \in ReqNums
    /\ qEnd \in ReqNums
    /\ stage = "request"
    /\ boundaries = << >>
    /\ window = NoWindow
    /\ ClipIdle

\* the request check fails: 400, nothing is fetched
SnapReject ==
    /\ stage = "request"
    /\ badParams(qStart, qEnd)
    /\ stage' = "rejected"
    /\ UNCHANGED <<m3u8, qStart, qEnd, boundaries, window>>
    /\ UNCHANGED <<clipVars, sseVars, modeVars, feedVars>>

\* the request passes: the playlist is parsed and the window snapped
SnapAccept ==
    /\ stage = "request"
    /\ ~badParams(qStart, qEnd)
    /\ boundaries' = parseBoundaries(m3u8)
    /\ window' = snapWindow(boundaries', qStart.v, qEnd.v)
    /\ stage' = "snapped"
    /\ UNCHANGED <<m3u8, qStart, qEnd>>
    /\ UNCHANGED <<clipVars, sseVars, modeVars, feedVars>>

SnapNext == SnapReject \/ SnapAccept

SnapSpec == SnapInit /\ [][SnapNext]_vars

\* ------------------------------------------------------------- /clip
JobParams == {"", "a"}
CodeParams == {<< >>, <<"vid">>}
ClipWindows ==
    {<<Num(12 * Sec), Num(22 * Sec)>>, <<Num(5 * Sec), Num(5 * Sec)>>,
     <<NaN, Num(5 * Sec)>>}
ClipManifests == {<<L10, L10, L10>>, << >>}
ChunkLens == {1, 2}
ErrChunks ==
    {<<LongRun, LongRun, LongRun, "Server returned 404", "\n",
       "out_time_ms", "=", "3", "0", "0", "0", "0", "\n">>,
     <<"progress", "=", "end", "\n", "out_time_ms", "=", "1", "0">>,
     <<"0", "0", "0", "\n">>}

MisconfiguredMsg == <<"Server misconfigured: BASE is not set">>
BadParamsMsg == <<"Bad params: code/start/end">>
PlaylistMsg == <<"Failed to fetch playlist: HTTP 404">>
ServerErrorMsg == <<"Server error: fetch failed">>
SpawnErrorMsg == <<"spawn ffmpeg ENOENT">>

\* a kill that sends no signal
KillNothing(p) == p

\* ff.kill("SIGKILL"): the signal reaches a process that is still there
Kill(p) == IF p.st = "running" THEN [p EXCEPT !.st = "killed"] ELSE p

\* a clearTimeout that leaves the timer armed
ClearTimerNoop(w) == w

\* clearTimeout(watchdog)
ClearTimer(w) == IF w = "armed" THEN "cleared" ELSE w

\* a byte count that starts from 0 at every chunk
BytesFromZero(J, jobId) == 0

\* jobs.get(jobId)?.transfer?.bytes || 0
BytesOrZero(J, jobId) ==
    LET tr == Field(GetOrEmpty(J, jobId), "transfer")
    IN  IF "bytes" \in DOMAIN tr THEN tr.bytes ELSE 0

ClipInit ==
    /\ m3u8 = << >>
    /\ qStart = NaN
    /\ qEnd = NaN
    /\ boundaries = << >>
    /\ window = NoWindow
    /\ stage = "idle"
    /\ BASE \in BOOLEAN
    /\ forceSolid \in BOOLEAN
    /\ jobs = EmptyObj
    /\ phase = [r \in Reqs |-> IF r = "r1" THEN "new" ELSE "off"]
    /\ rq = [r \in Reqs |-> NoQuery]
    /\ aborted = [r \in Reqs |-> FALSE]
    /\ loc = [r \in Reqs |-> NoLocals]
    /\ ff = [r \in Reqs |-> NoProcess]
    /\ res = [r \in Reqs |-> NewResponse]
    /\ fsx = [r \in Reqs |-> NoFiles]
    /\ thrown = [r \in Reqs |-> FALSE]
    /\ SseIdle
    /\ ModeIdle
    /\ FeedIdle

\* GET /clip up to the await of the playlist fetch
ClipRequest(r) ==
    /\ phase[r] = "new"
    /\ \E job \in JobParams, code \in CodeParams, w \in ClipWindows :
          LET jobId == IF job = "" THEN makeJobId(r) ELSE job
          IN  IF ~BASE
              THEN /\ rq' = [rq EXCEPT ![r] = [code |-> code, start |-> w[1],
                                               end |-> w[2], text |-> << >>,
                                               origin |-> "none"]]
                   /\ res' = [res EXCEPT ![r] = SendText(@, 500, MisconfiguredMsg)]
                   /\ phase' = [phase EXCEPT ![r] = "closed"]
                   /\ UNCHANGED <<jobs, loc>>
              ELSE /\ loc' = [loc EXCEPT ![r].jobId = jobId]
                   /\ rq' = [rq EXCEPT ![r] = [code |-> code, start |-> w[1],
                                               end |-> w[2], text |-> << >>,
                                               origin |-> "none"]]
                   /\ IF code = << >> \/ badParams(w[1], w[2])
                      THEN /\ jobs' = initJob(jobs, jobId,
                                              [status |-> "error", error |-> BadParamsMsg])
                           /\ res' = [res EXCEPT ![r] = SendText(@, 400, BadParamsMsg)]
                           /\ phase' = [phase EXCEPT ![r] = "closed"]
                      ELSE /\ phase' = [phase EXCEPT ![r] = "fetch"]
                           /\ UNCHANGED <<jobs, res>>
    /\ UNCHANGED <<BASE, forceSolid, aborted, ff, fsx, thrown>>
    /\ UNCHANGED <<playlistVars, sseVars, modeVars, feedVars>>

\* the fetch (or the read of its body) rejects: the catch of the handler
FetchFails(r) ==
    /\ phase[r] = "fetch"
    /\ rq' = [rq EXCEPT ![r].origin = "unreachable"]
    /\ res' = [res EXCEPT ![r] = SendText(@, 500, ServerErrorMsg)]
    /\ phase' = [phase EXCEPT ![r] = "closed"]
    /\ UNCHANGED <<BASE, forceSolid, jobs, aborted, loc, ff, fsx, thrown>>
    /\ UNCHANGED <<playlistVars, sseVars, modeVars, feedVars>>

\* the origin answers with a status that is not ok
\* the same with the answer of the catch-all
FetchNotOkAs500(r) ==
    /\ phase[r] = "fetch"
    /\ rq' = [rq EXCEPT ![r].origin = "http"]
    /\ res' = [res EXCEPT ![r] = SendText(@, 500, ServerErrorMsg)]
    /\ phase' = [phase EXCEPT ![r] = "closed"]
    /\ UNCHANGED <<BASE, forceSolid, jobs, aborted, loc, ff, fsx, thrown>>
    /\ UNCHANGED <<playlistVars, sseVars, modeVars, feedVars>>

FetchNotOk(r) ==
    /\ phase[r] = "fetch"
    /\ rq' = [rq EXCEPT ![r].origin = "http"]
    /\ jobs' = initJob(jobs, loc[r].jobId, [status |-> "error", error |-> PlaylistMsg])
    /\ res' = [res EXCEPT ![r] = SendText(@, 502, PlaylistMsg)]
    /\ phase' = [phase EXCEPT ![r] = "closed"]
    /\ UNCHANGED <<BASE, forceSolid, aborted, loc, ff, fsx, thrown>>
    /\ UNCHANGED <<playlistVars, sseVars, modeVars, feedVars>>

\* the playlist arrives: window, job, tool process, callbacks
FetchOk(r) ==
    /\ phase[r] = "fetch"
    /\ \E text \in ClipManifests, solid \in SolidParams, ua \in UserAgents :
          LET w == snapWindow(parseBoundaries(text), rq[r].start.v, rq[r].end.v)
              wantsSolid == wantSolid(forceSolid, ua, solid)
          IN  /\ rq' = [rq EXCEPT ![r].text = text, ![r].origin = "ok"]
              /\ jobs' = initJob(jobs, loc[r].jobId,
                            [status |-> "running",
                             requested |-> [start |-> toFixed3(w.sReq),
                                            end |-> toFixed3(w.eReq)],
                             snapped |-> [start |-> toFixed3(w.sSnap),
                                          end |-> toFixed3(w.eSnap),
                                          duration |-> w.dur],
                             progress |-> [timeMs |-> 0, pct |-> 0],
                             transfer |-> [bytes |-> 0, totalBytes |-> Null]])
              /\ loc' = [loc EXCEPT ![r] =
                            [jobId |-> loc[r].jobId, wantSolid |-> wantsSolid,
                             dur |-> w.dur, sentHeaders |-> FALSE, hadData |-> FALSE,
                             errLog |-> << >>, progBuf |-> << >>,
                             watchdog |-> IF wantsSolid THEN "none" ELSE "armed",
                             piped |-> FALSE]]
    /\ ff' = [ff EXCEPT ![r] = [st |-> "running", out |-> << >>, nOut |-> 0, nErr |-> 0]]
    /\ phase' = [phase EXCEPT ![r] = "serving"]
    /\ UNCHANGED <<BASE, forceSolid, aborted, res, fsx, thrown>>
    /\ UNCHANGED <<playlistVars, sseVars, modeVars, feedVars>>

\* the client goes away: req's 'aborted', heard once the callbacks exist
ClientAbort(r) ==
    /\ phase[r] \in {"fetch", "serving"}
    /\ ~aborted[r]
    /\ ~res[r].finished
    /\ aborted' = [aborted EXCEPT ![r] = TRUE]
    /\ IF phase[r] = "serving"
       THEN /\ ff' = [ff EXCEPT ![r] = Kill(@)]
            /\ jobs' = endJob(jobs, loc[r].jobId, "canceled", << >>)
       ELSE UNCHANGED <<ff, jobs>>
    /\ UNCHANGED <<BASE, forceSolid, phase, rq, loc, res, fsx, thrown>>
    /\ UNCHANGED <<playlistVars, sseVars, modeVars, feedVars>>

\* the watchdog timer fires
Watchdog(r) ==
    /\ loc[r].watchdog = "armed"
    /\ loc' = [loc EXCEPT ![r].watchdog = "fired"]
    /\ ff' = [ff EXCEPT ![r] = IF loc[r].hadData THEN @ ELSE Kill(@)]
    /\ UNCHANGED <<BASE, forceSolid, jobs, phase, rq, aborted, res, fsx, thrown>>
    /\ UNCHANGED <<playlistVars, sseVars, modeVars, feedVars>>

\* the tool writes a chunk: to its standard output, or to the scratch file
FfWrite(r) ==
    /\ ff[r].st = "running"
    /\ ff[r].nOut < MaxOut
    /\ \E n \in ChunkLens :
          IF loc[r].wantSolid
          THEN /\ fsx' = [fsx EXCEPT ![r].tmp = "partial", ![r].size = @ + n]
               /\ ff' = [ff EXCEPT ![r].nOut = @ + 1]
          ELSE /\ ff' = [ff EXCEPT ![r].nOut = @ + 1, ![r].out = Append(@, n)]
               /\ UNCHANGED fsx
    /\ UNCHANGED <<BASE, forceSolid, jobs, phase, rq, aborted, loc, res, thrown>>
    /\ UNCHANGED <<playlistVars, sseVars, modeVars, feedVars>>

\* ff.stdout 'data': the counting handler, then the once handler on the first
\* chunk or the pipe on a later one
StdoutData(r) ==
    /\ phase[r] = "serving"
    /\ ~loc[r].wantSolid
    /\ ff[r].out # << >>
    /\ LET n == Head(ff[r].out)
           id == loc[r].jobId
       IN  /\ jobs' = patchJob(jobs, id,
                               [transfer |-> [bytes |-> BytesOrZero(jobs, id) + n]])
           /\ ff' = [ff EXCEPT ![r].out = Tail(@)]
           /\ IF ~loc[r].hadData
              THEN IF SetOkHeadersThrows(res[r])
                   THEN /\ loc' = [loc EXCEPT ![r].hadData = TRUE,
                                              ![r].watchdog = ClearTimer(@),
                                              ![r].sentHeaders = TRUE]
                        /\ res' = [res EXCEPT ![r] = SetOkHeaders(@)]
                        /\ thrown' = [thrown EXCEPT ![r] = TRUE]
                   ELSE /\ loc' = [loc EXCEPT ![r].hadData = TRUE,
                                              ![r].watchdog = ClearTimer(@),
                                              ![r].sentHeaders = TRUE,
                                              ![r].piped = TRUE]
                        /\ res' = [res EXCEPT ![r] = ResWrite(SetOkHeaders(@), n)]
                        /\ UNCHANGED thrown
              ELSE /\ res' = [res EXCEPT ![r] = IF loc[r].piped THEN ResWrite(@, n) ELSE @]
                   /\ UNCHANGED <<loc, thrown>>
    /\ UNCHANGED <<BASE, forceSolid, phase, rq, aborted, fsx>>
    /\ UNCHANGED <<playlistVars, sseVars, modeVars, feedVars>>

\* a stderr handler that parses each chunk by itself
stderrDataNoCarry(J, jobId, dur, progBuf, d) == progLoop(J, jobId, dur, d)

\* progBuf += s, then the while loop: [jobs, buf]
stderrData(J, jobId, dur, progBuf, d) == progLoop(J, jobId, dur, progBuf \o d)

\* ff.stderr 'data'
StderrData(r) ==
    /\ phase[r] = "serving"
    /\ ff[r].st \in {"running", "killed", "exited"}
    /\ ff[r].nErr < MaxErr
    /\ \E d \in ErrChunks :
          LET pr == stderrData(jobs, loc[r].jobId, loc[r].dur, loc[r].progBuf, d)
          IN  /\ jobs' = pr.jobs
              /\ loc' = [loc EXCEPT ![r].errLog = @ \o d, ![r].progBuf = pr.buf]
    /\ ff' = [ff EXCEPT ![r].nErr = @ + 1]
    /\ UNCHANGED <<BASE, forceSolid, phase, rq, aborted, res, fsx, thrown>>
    /\ UNCHANGED <<playlistVars, sseVars, modeVars, feedVars>>

\* the answer of the exit handler to a failure: endJob, then 500 with msg
ExitFailure(r, J) ==
    LET msg == ExitMsg(loc[r].errLog)
    IN  /\ jobs' = endJob(J, loc[r].jobId, "error", msg)
        /\ res' = [res EXCEPT ![r] = SendText(@, 500, msg)]
        /\ thrown' = [thrown EXCEPT ![r] = @ \/ SendTextThrows(res[r])]

\* an exit handler that answers every exit as a failure
FfExitHandlerAlwaysFail(r, okExit) ==
    /\ ff' = [ff EXCEPT ![r].st = "exited"]
    /\ ExitFailure(r, jobs)
    /\ loc' = [loc EXCEPT ![r].watchdog = ClearTimer(@)]
    /\ UNCHANGED <<BASE, forceSolid, phase, rq, aborted, fsx>>
    /\ UNCHANGED <<playlistVars, sseVars, modeVars, feedVars>>

\* ff 'exit' with (code, signal); okExit is codeExit === 0 && !signal
FfExitHandler(r, okExit) ==
    /\ ff' = [ff EXCEPT ![r].st = "exited"]
    /\ IF loc[r].wantSolid
       THEN IF okExit
            THEN /\ fsx' = [fsx EXCEPT ![r].tmp = "complete", ![r].wait = "stat"]
                 /\ loc' = [loc EXCEPT ![r].watchdog = ClearTimer(@)]
                 /\ UNCHANGED <<jobs, res, thrown>>
            ELSE /\ ExitFailure(r, jobs)
                 /\ loc' = [loc EXCEPT ![r].watchdog = ClearTimer(@)]
                 /\ UNCHANGED fsx
       ELSE IF ~loc[r].hadData /\ ~loc[r].sentHeaders
            THEN /\ ExitFailure(r, jobs)
                 /\ loc' = [loc EXCEPT ![r].watchdog = ClearTimer(@)]
                 /\ UNCHANGED fsx
            ELSE /\ res' = [res EXCEPT ![r] = ResEnd(@)]
                 /\ jobs' = endJob(jobs, loc[r].jobId, "done", << >>)
                 /\ loc' = [loc EXCEPT ![r].watchdog = ClearTimer(@)]
                 /\ UNCHANGED <<fsx, thrown>>
    /\ UNCHANGED <<BASE, forceSolid, phase, rq, aborted>>
    /\ UNCHANGED <<playlistVars, sseVars, modeVars, feedVars>>

\* the tool ends by itself, with code 0 or not
FfExit(r) ==
    /\ phase[r] = "serving"
    /\ ff[r].st = "running"
    /\ \E okExit \in BOOLEAN : FfExitHandler(r, okExit)

\* the tool was sent SIGKILL: it dies of it, or it had ended just before with
\* its own code, which the 'exit' event then carries
FfKilled(r) ==
    /\ phase[r] = "serving"
    /\ ff[r].st = "killed"
    /\ \E okExit \in BOOLEAN : FfExitHandler(r, okExit)

\* an 'exit' after an 'error': it may or may not come
FfExitAfterError(r) ==
    /\ phase[r] = "serving"
    /\ ff[r].st = "failed"
    /\ FfExitHandler(r, FALSE)

\* an error handler that ends the job and leaves the caller without answer
FfErrorNoAnswer(r) ==
    /\ phase[r] = "serving"
    /\ ff[r].st \in {"running", "killed"}
    /\ ff[r].nOut = 0
    /\ ff[r].nErr = 0
    /\ ff' = [ff EXCEPT ![r].st = "failed"]
    /\ loc' = [loc EXCEPT ![r].watchdog = ClearTimer(@)]
    /\ jobs' = endJob(jobs, loc[r].jobId, "error", SpawnErrorMsg)
    /\ UNCHANGED <<BASE, forceSolid, phase, rq, aborted, fsx, res, thrown>>
    /\ UNCHANGED <<playlistVars, sseVars, modeVars, feedVars>>

\* ff 'error': the tool could not be started
FfError(r) ==
    /\ phase[r] = "serving"
    /\ ff[r].st \in {"running", "killed"}
    /\ ff[r].nOut = 0
    /\ ff[r].nErr = 0
    /\ ff' = [ff EXCEPT ![r].st = "failed"]
    /\ loc' = [loc EXCEPT ![r].watchdog = ClearTimer(@)]
    /\ jobs' = endJob(jobs, loc[r].jobId, "error", SpawnErrorMsg)
    /\ IF ~loc[r].sentHeaders
       THEN /\ res' = [res EXCEPT ![r] = SendText(@, 500, <<"spawn error: ">> \o SpawnErrorMsg)]
            /\ thrown' = [thrown EXCEPT ![r] = @ \/ SendTextThrows(res[r])]
       ELSE /\ res' = [res EXCEPT ![r] = ResEnd(@)]
            /\ UNCHANGED thrown
    /\ UNCHANGED <<BASE, forceSolid, phase, rq, aborted, fsx>>
    /\ UNCHANGED <<playlistVars, sseVars, modeVars, feedVars>>

\* the exit handler after its await of fs.promises.stat
StatDone(r) ==
    /\ fsx[r].wait = "stat"
    /\ \E statOk \in BOOLEAN :
          LET id == loc[r].jobId
              ready == patchJob(jobs, id,
                                [status |-> "ready",
                                 transfer |-> [totalBytes |-> fsx[r].size]])
          IN  IF statOk /\ ~SetOkHeadersThrows(res[r])
              THEN /\ jobs' = ready
                   /\ res' = [res EXCEPT ![r] = [SetOkHeaders(@) EXCEPT !.length = fsx[r].size]]
                   /\ fsx' = [fsx EXCEPT ![r].wait = "none", ![r].rd = "open",
                                         ![r].left = fsx[r].size]
                   /\ UNCHANGED thrown
              ELSE /\ ExitFailure(r, IF statOk THEN ready ELSE jobs)
                   /\ fsx' = [fsx EXCEPT ![r].wait = "none"]
    /\ UNCHANGED <<BASE, forceSolid, phase, rq, aborted, loc, ff>>
    /\ UNCHANGED <<playlistVars, sseVars, modeVars, feedVars>>

\* the read stream's 'data': the counting handler and the pipe
ReadData(r) ==
    /\ fsx[r].rd = "open"
    /\ fsx[r].left > 0
    /\ ~aborted[r]
    /\ \E n \in ChunkLens \cup {fsx[r].left} :
          /\ n <= fsx[r].left
          /\ jobs' = patchJob(jobs, loc[r].jobId,
                        [transfer |-> [bytes |-> BytesOrZero(jobs, loc[r].jobId) + n]])
          /\ res' = [res EXCEPT ![r] = ResWrite(@, n)]
          /\ fsx' = [fsx EXCEPT ![r].left = @ - n]
    /\ UNCHANGED <<BASE, forceSolid, phase, rq, aborted, loc, ff, thrown>>
    /\ UNCHANGED <<playlistVars, sseVars, modeVars, feedVars>>

\* the read stream ends (the pipe ends the response) and closes: the close
\* handler up to its await of fs.promises.unlink
ReadClose(r) ==
    /\ fsx[r].rd = "open"
    /\ fsx[r].left = 0
    /\ ~aborted[r]
    /\ res' = [res EXCEPT ![r] = ResEnd(@)]
    /\ fsx' = [fsx EXCEPT ![r].rd = "closed", ![r].wait = "unlink"]
    /\ UNCHANGED <<BASE, forceSolid, jobs, phase, rq, aborted, loc, ff, thrown>>
    /\ UNCHANGED <<playlistVars, sseVars, modeVars, feedVars>>

\* the close handler after the unlink
UnlinkDone(r) ==
    /\ fsx[r].wait = "unlink"
    /\ fsx' = [fsx EXCEPT ![r].wait = "none", ![r].tmp = "removed"]
    /\ jobs' = endJob(jobs, loc[r].jobId, "done", << >>)
    /\ UNCHANGED <<BASE, forceSolid, phase, rq, aborted, loc, ff, res, thrown>>
    /\ UNCHANGED <<playlistVars, sseVars, modeVars, feedVars>>

\* the ended response is flushed to the client: 'finish'
ResFinish(r) ==
    /\ res[r].ended
    /\ ~res[r].finished
    /\ ~aborted[r]
    /\ res' = [res EXCEPT ![r].finished = TRUE]
    /\ UNCHANGED <<BASE, forceSolid, jobs, phase, rq, aborted, loc, ff, fsx, thrown>>
    /\ UNCHANGED <<playlistVars, sseVars, modeVars, feedVars>>

Next ==
    \E r \in Reqs :
        \/ ClipRequest(r)
        \/ FetchFails(r)
        \/ FetchNotOk(r)
        \/ FetchOk(r)
        \/ ClientAbort(r)
        \/ Watchdog(r)
        \/ FfWrite(r)
        \/ StdoutData(r)
        \/ StderrData(r)
        \/ FfExit(r)
        \/ FfKilled(r)
        \/ FfExitAfterError(r)
        \/ FfError(r)
        \/ StatDone(r)
        \/ ReadData(r)
        \/ ReadClose(r)
        \/ UnlinkDone(r)
        \/ ResFinish(r)

Spec == ClipInit /\ [][Next]_vars

\* the callbacks the runtime owes request r: the answer of the fetch, the
\* tool's 'exit', the reads of its output and of the scratch file
Callbacks(r) ==
    \/ FetchOk(r)
    \/ StdoutData(r)
    \/ FfExit(r)
    \/ FfKilled(r)
    \/ StatDone(r)
    \/ ReadData(r)
    \/ ReadClose(r)
    \/ UnlinkDone(r)

\* what the caller and the tool may do besides
LiveNext ==
    \E r \in Reqs :
        \/ ClipRequest(r)
        \/ ClientAbort(r)
        \/ FfWrite(r)
        \/ FfError(r)
        \/ Callbacks(r)

\* a request whose playlist is fetched, where the tool emits 'exit' or
\* 'error' in the end and every pending callback runs in the end
ClipLiveSpec ==
    ClipInit /\ [][LiveNext]_vars /\ \A r \in Reqs : WF_vars(Callbacks(r))

\* ------------------------------------------------------------- two requests at once
\* two /clip requests arrive at a configured server; each is followed up to
\* the exit of its tool
PairInit ==
    /\ m3u8 = << >>
    /\ qStart = NaN
    /\ qEnd = NaN
    /\ boundaries = << >>
    /\ window = NoWindow
    /\ stage = "idle"
    /\ BASE = TRUE
    /\ forceSolid = FALSE
    /\ jobs = EmptyObj
    /\ phase = [r \in Reqs |-> "new"]
    /\ rq = [r \in Reqs |-> NoQuery]
    /\ aborted = [r \in Reqs |-> FALSE]
    /\ loc = [r \in Reqs |-> NoLocals]
    /\ ff = [r \in Reqs |-> NoProcess]
    /\ res = [r \in Reqs |-> NewResponse]
    /\ fsx = [r \in Reqs |-> NoFiles]
    /\ thrown = [r \in Reqs |-> FALSE]
    /\ SseIdle
    /\ ModeIdle
    /\ FeedIdle

PairNext ==
    \E r \in Reqs :
        \/ ClipRequest(r)
        \/ FetchOk(r)
        \/ FfExit(r)

PairSpec == PairInit /\ [][PairNext]_vars

\* ------------------------------------------------------------- progress streams
\* The registry functions with their pushes, and GET /progress-stream/:jobId.
\* A connection is "idle" before its request, "open" while its writes go
\* through, "broken" while they throw, "closed" after req 'close'.
MaxMut == 3

\* { id: jobId, status: "unknown" }
Unknown(jobId) == [id |-> jobId, status |-> "unknown"]

\* JSON.stringify of a job: a number that is NaN is written as null
stringify(o) ==
    [k \in DOMAIN o |->
        IF k \in NestedFields
        THEN [f \in DOMAIN o[k] |-> IF o[k][f] = NotANumber THEN Null ELSE o[k][f]]
        ELSE o[k]]

\* JSON.stringify(jobs.get(jobId) || { id: jobId, status: "unknown" })
Snapshot(J, jobId) == stringify(IF jobId \in DOMAIN J THEN J[jobId] ELSE Unknown(jobId))

\* sseClients.get(jobId), undefined read as the empty Set
ClientsOf(SC, jobId) == IF jobId \in DOMAIN SC THEN SC[jobId] ELSE << >>

\* res is in the Set clients
InSet(clients, c) == \E i \in 1..Len(clients) : clients[i] = c

\* set.delete(res)
SetDelete(clients, c) == SelectSeq(clients, LAMBDA x : x # c)

\* a push that stops at the first write that throws
pushSSENoCatch(X, SC, J, jobId) ==
    LET clients == ClientsOf(SC, jobId)
        data == Snapshot(J, jobId)
        at == Len(mutLog[jobId]) + 1
        Reached(i) == \A k \in 1..(i - 1) : X[clients[k]].st # "broken"
    IN  [c \in DOMAIN X |->
            IF \E i \in 1..Len(clients) : clients[i] = c /\ Reached(i)
            THEN IF X[c].st = "broken"
                 THEN [X[c] EXCEPT !.threwAt = at]
                 ELSE [X[c] EXCEPT !.got = Append(@, data)]
            ELSE X[c]]

\* a push that writes to the first connection of the Set only
pushSSEFirstOnly(X, SC, J, jobId) ==
    LET clients == ClientsOf(SC, jobId)
        data == Snapshot(J, jobId)
        at == Len(mutLog[jobId]) + 1
    IN  [c \in DOMAIN X |->
            IF clients # << >> /\ clients[1] = c
            THEN IF X[c].st = "broken"
                 THEN [X[c] EXCEPT !.threwAt = at]
                 ELSE [X[c] EXCEPT !.got = Append(@, data)]
            ELSE X[c]]

\* pushSSE(jobId): X is the connections before the push, the result the
\* connections after it; a write that throws is caught and the loop goes on
pushSSE(X, SC, J, jobId) ==
    LET clients == ClientsOf(SC, jobId)
        data == Snapshot(J, jobId)
        at == Len(mutLog[jobId]) + 1
    IN  [c \in DOMAIN X |->
            IF InSet(clients, c)
            THEN IF X[c].st = "broken"
                 THEN [X[c] EXCEPT !.threwAt = at]
                 ELSE [X[c] EXCEPT !.got = Append(@, data)]
            ELSE X[c]]

\* what every mutation does after jobs.set: n pushes of the new snapshot
Mutate(jobId, J, n) ==
    /\ jobs' = J
    /\ sse' = IF n = 1 THEN pushSSE(sse, sseClients, J, jobId)
              ELSE pushSSE(pushSSE(sse, sseClients, J, jobId), sseClients, J, jobId)
    /\ mutLog' = [mutLog EXCEPT ![jobId] = Append(@, [data |-> Snapshot(J, jobId), n |-> n])]
    /\ UNCHANGED <<sseClients, BASE, forceSolid, phase, rq, aborted, loc, ff, res, fsx,
                   thrown>>
    /\ UNCHANGED <<playlistVars, modeVars, feedVars>>

\* the seed of /clip for a window [12 s, 22 s] snapped to [10 s, 30 s]
RunningSeed ==
    [status |-> "running",
     requested |-> [start |-> 12 * Sec, end |-> 22 * Sec],
     snapped |-> [start |-> 10 * Sec, end |-> 30 * Sec, duration |-> 20 * Sec],
     progress |-> [timeMs |-> 0, pct |-> 0],
     transfer |-> [bytes |-> 0, totalBytes |-> Null]]

\* the patches of /clip: bytes sent, and the progress of a window of
\* duration 0 before any time was read (0 / 0)
Patches(J, jobId) ==
    {[transfer |-> [bytes |-> BytesOrZero(J, jobId) + 1]],
     [progress |-> [timeMs |-> 0, pct |-> NotANumber]]}

\* initJob(jobId, seed): jobs.set, then pushSSE
SseInitJob(j) ==
    /\ Len(mutLog[j]) < MaxMut
    /\ Mutate(j, initJob(jobs, j, RunningSeed), 1)

\* patchJob(jobId, patch): jobs.set, then pushSSE
SsePatchJob(j) ==
    /\ Len(mutLog[j]) < MaxMut
    /\ j \in DOMAIN jobs
    /\ \E patch \in Patches(jobs, j) : Mutate(j, patchJob(jobs, j, patch), 1)

\* endJob(jobId, status, error): patchJob with its push, then pushSSE again
SseEndJob(j) ==
    /\ Len(mutLog[j]) < MaxMut
    /\ j \in DOMAIN jobs
    /\ \E status \in {"done", "error", "canceled"} :
          Mutate(j, endJob(jobs, j, status, << >>), 2)

\* a progress stream that does not write the snapshot when it attaches
SseAttachSilent(c) ==
    /\ sse[c].st = "idle"
    /\ \E jobId \in StreamIds :
          /\ sseClients' = MapSet(sseClients, jobId, Append(ClientsOf(sseClients, jobId), c))
          /\ sse' = [sse EXCEPT ![c] = [st |-> "open", job |-> jobId, got |-> << >>,
                                        from |-> Len(mutLog[jobId]), threwAt |-> 0]]
    /\ UNCHANGED <<mutLog, clipVars, playlistVars, modeVars, feedVars>>

\* GET /progress-stream/:jobId
SseAttach(c) ==
    /\ sse[c].st = "idle"
    /\ \E jobId \in StreamIds :
          /\ sseClients' = MapSet(sseClients, jobId, Append(ClientsOf(sseClients, jobId), c))
          /\ sse' = [sse EXCEPT ![c] = [st |-> "open", job |-> jobId,
                                        got |-> <<Snapshot(jobs, jobId)>>,
                                        from |-> Len(mutLog[jobId]), threwAt |-> 0]]
    /\ UNCHANGED <<mutLog, clipVars, playlistVars, modeVars, feedVars>>

\* the connection fails: from now on res.write throws
SseBreak(c) ==
    /\ sse[c].st = "open"
    /\ sse' = [sse EXCEPT ![c].st = "broken"]
    /\ UNCHANGED <<sseClients, mutLog, clipVars, playlistVars, modeVars, feedVars>>

\* req 'close': the connection leaves its Set; the Set stays in the Map
SseClose(c) ==
    /\ sse[c].st \in {"open", "broken"}
    /\ sse' = [sse EXCEPT ![c].st = "closed"]
    /\ sseClients' = IF sse[c].job \in DOMAIN sseClients
                     THEN [sseClients EXCEPT ![sse[c].job] = SetDelete(@, c)]
                     ELSE sseClients
    /\ UNCHANGED <<mutLog, clipVars, playlistVars, modeVars, feedVars>>

SseInit ==
    /\ m3u8 = << >>
    /\ qStart = NaN
    /\ qEnd = NaN
    /\ boundaries = << >>
    /\ window = NoWindow
    /\ stage = "idle"
    /\ ClipIdle

SseNext ==
    \/ \E j \in MutJobs : SseInitJob(j)
    \/ \E j \in MutJobs : SsePatchJob(j)
    \/ \E j \in MutJobs : SseEndJob(j)
    \/ \E c \in SseConns : SseAttach(c)
    \/ \E c \in SseConns : SseBreak(c)
    \/ \E c \in SseConns : SseClose(c)

SseSpec == SseInit /\ [][SseNext]_vars

\* the same machine, where every open connection is closed in the end
SseLiveSpec ==
    SseInit /\ [][SseNext]_vars /\ \A c \in SseConns : WF_vars(SseClose(c))

\* ------------------------------------------------------------- the selection alone
\* the server started with some SOLID_MP4, a /clip request with some user
\* agent and some solid parameter
ModeInit ==
    /\ m3u8 = << >>
    /\ qStart = NaN
    /\ qEnd = NaN
    /\ boundaries = << >>
    /\ window = NoWindow
    /\ stage = "idle"
    /\ BASE = TRUE
    /\ forceSolid = FALSE
    /\ jobs = EmptyObj
    /\ phase = [r \in Reqs |-> "off"]
    /\ rq = [r \in Reqs |-> NoQuery]
    /\ aborted = [r \in Reqs |-> FALSE]
    /\ loc = [r \in Reqs |-> NoLocals]
    /\ ff = [r \in Reqs |-> NoProcess]
    /\ res = [r \in Reqs |-> NewResponse]
    /\ fsx = [r \in Reqs |-> NoFiles]
    /\ thrown = [r \in Reqs |-> FALSE]
    /\ SseIdle
    /\ FeedIdle
    /\ \E e \in EnvValues, ua \in UserAgents, solid \in SolidParams :
          sel = [SOLID_MP4 |-> e, ua |-> ua, solid |-> solid, chosen |-> FALSE,
                 wantSolid |-> FALSE]

\* the three lines of /clip that choose the delivery mode
SelectMode ==
    /\ ~sel.chosen
    /\ sel' = [sel EXCEPT !.chosen = TRUE,
                          !.wantSolid = wantSolid(FORCE_SOLID(sel.SOLID_MP4), sel.ua,
                                                  sel.solid)]
    /\ UNCHANGED <<clipVars, playlistVars, sseVars, feedVars>>

ModeNext == SelectMode

ModeSpec == ModeInit /\ [][ModeNext]_vars

\* ------------------------------------------------------------- the status feed alone
\* status texts of the tool: key=value lines, blanks, a line of another key,
\* a value that is no number, a line with two "=", an empty line, a last
\* line without its "\n"
FeedTexts ==
    {<<"out_time_ms", "=", "3", "0", "0", "0", "\n", "progress", "=", "end", "\n">>,
     <<" ", "out_time_ms", "=", "1", "0", "0", "0", "0", "\r", "\n",
       "out_time_ms", "=", "5", "\n">>,
     <<"f", "=", "1", "\n", "out_time_ms", "=", "N", "/", "A", "\n",
       "out_time_ms", "=", "2", "0", "0", "0", "\n">>,
     <<"out_time_ms", "=", "9", "=", "9", "\n", "\n", "out_time_ms", "=", "7", "0",
       "0", "\n", "progress", "=", "end">>}
FeedDurs == {0, 4 * Sec, 20 * Sec}

\* the job of a request whose snapped window lasts dur
FeedJob(dur) ==
    initJob(EmptyObj, "a",
            [status |-> "running",
             requested |-> [start |-> 0, end |-> dur],
             snapped |-> [start |-> 0, end |-> dur, duration |-> dur],
             progress |-> [timeMs |-> 0, pct |-> 0],
             transfer |-> [bytes |-> 0, totalBytes |-> Null]])

FeedInit ==
    /\ m3u8 = << >>
    /\ qStart = NaN
    /\ qEnd = NaN
    /\ boundaries = << >>
    /\ window = NoWindow
    /\ stage = "idle"
    /\ BASE = TRUE
    /\ forceSolid = FALSE
    /\ jobs = EmptyObj
    /\ phase = [r \in Reqs |-> "off"]
    /\ rq = [r \in Reqs |-> NoQuery]
    /\ aborted = [r \in Reqs |-> FALSE]
    /\ loc = [r \in Reqs |-> NoLocals]
    /\ ff = [r \in Reqs |-> NoProcess]
    /\ res = [r \in Reqs |-> NewResponse]
    /\ fsx = [r \in Reqs |-> NoFiles]
    /\ thrown = [r \in Reqs |-> FALSE]
    /\ SseIdle
    /\ ModeIdle
    /\ \E text \in FeedTexts, dur \in FeedDurs :
          feed = [text |-> text, pos |-> 0, dur |-> dur, jobs |-> FeedJob(dur),
                  progBuf |-> << >>]

\* ff.stderr 'data' with the next n symbols of the text
FeedChunk ==
    /\ feed.pos < Len(feed.text)
    /\ \E n \in 1..(Len(feed.text) - feed.pos) :
          LET d == SubSeq(feed.text, feed.pos + 1, feed.pos + n)
              pr == stderrData(feed.jobs, "a", feed.dur, feed.progBuf, d)
          IN  feed' = [feed EXCEPT !.pos = @ + n, !.jobs = pr.jobs, !.progBuf = pr.buf]
    /\ UNCHANGED <<clipVars, playlistVars, sseVars, modeVars>>

FeedNext == FeedChunk

FeedSpec == FeedInit /\ [][FeedNext]_vars

\* ------------------------------------------------------------- claims on the playlist helpers
Elems(b) == {b[i] : i \in 1..Len(b)}
LargestLE(b, t) == CHOOSE x \in Elems(b) : x <= t /\ \A y \in Elems(b) : y <= t => y <= x
SmallestGE(b, t) == CHOOSE x \in Elems(b) : x >= t /\ \A y \in Elems(b) : y >= t => x <= y
NonDecreasing(b) == \A i \in 1..(Len(b) - 1) : b[i] <= b[i + 1]

\* C5: the snapped window of every accepted request is non-empty: the snapped
\* end is strictly greater than the snapped start and the duration handed to
\* the tool is positive.
C5_WindowNonEmpty ==
    stage = "snapped" => (window.eSnap > window.sSnap /\ window.dur > 0)

\* C6: on a non-decreasing boundary list starting at 0 and a time t in
\* [0, total], floorBoundary(b, t) <= t <= ceilBoundary(b, t), both results
\* are boundaries, the floor is the largest boundary <= t and the ceiling the
\* smallest boundary >= t (t being the clamped start for the floor and the
\* clamped end for the ceiling).
C6_FloorCeil ==
    stage = "snapped" =>
        /\ NonDecreasing(boundaries) /\ boundaries[1] = 0
        /\ 0 <= window.sReq /\ window.sReq <= window.total
        /\ 0 <= window.eReq /\ window.eReq <= window.total
        /\ window.sSnap \in Elems(boundaries)
        /\ window.eCeil \in Elems(boundaries)
        /\ window.sSnap <= window.sReq
        /\ window.eReq <= window.eCeil
        /\ \A x \in Elems(boundaries) : x <= window.sReq => x <= window.sSnap
        /\ \A x \in Elems(boundaries) : x >= window.eReq => x >= window.eCeil

\* C6 witness: a playlist of three segments or more, the start strictly
\* inside a segment and the end exactly on an inner boundary.
C6_Witness ==
    /\ stage = "snapped"
    /\ Len(boundaries) >= 4
    /\ window.sSnap < window.sReq
    /\ window.eReq = window.eCeil
    /\ window.eCeil < window.total
    /\ window.sSnap > 0

\* the duration text of an #EXTINF line: what stands before the first comma
RECURSIVE UpToComma(_, _)
UpToComma(line, i) ==
    IF i > Len(line) THEN 0
    ELSE IF line[i] = "," THEN 0
    ELSE 1 + UpToComma(line, i + 1)
DurText(line) == SubSeq(line, 2, 1 + UpToComma(line, 2))
IsExtInfLine(line) == Len(line) >= 1 /\ line[1] = ExtInf
\* a decimal number: digits with at most one dot and at least one digit
WellFormed(txt) ==
    /\ Len(txt) >= 1
    /\ \A i \in 1..Len(txt) : IsTokChar(txt[i])
    /\ Cardinality({i \in 1..Len(txt) : txt[i] = "."}) <= 1
    /\ \E i \in 1..Len(txt) : IsDigit(txt[i])
    /\ \A i \in 1..Len(txt) : txt[i] # BigRun

\* C7 as stated: every #EXTINF line is a segment-duration entry and adds one
\* boundary; an entry whose duration text is not a finite decimal number adds
\* 0, any other adds its duration; the list starts at 0 and never decreases.
C7_AsStated ==
    stage = "parsed" =>
        LET ents == SelectSeq(m3u8, IsExtInfLine)
        IN  /\ boundaries[1] = 0
            /\ NonDecreasing(boundaries)
            /\ Len(boundaries) = Len(ents) + 1
            /\ \A k \in 1..Len(ents) :
                   k + 1 <= Len(boundaries) =>
                       boundaries[k + 1] - boundaries[k] =
                           IF WellFormed(DurText(ents[k]))
                           THEN parseFloat(DurText(ents[k])).v ELSE 0

\* C7: parseBoundaries returns a non-decreasing list starting at 0 with one
\* more element than there are lines that begin with #EXTINF: followed by a
\* digit or a dot; such a line adds 0 (the boundary repeats) when its run of
\* digits and dots has no leading number or is not finite, and otherwise the
\* value of the longest leading number of the run; the last element is the
\* sum of what the lines added; no other line adds a boundary.
C7_Boundaries ==
    stage = "parsed" =>
        LET ents == SelectSeq(m3u8, Matches)
            noNumber(tok) == tok[1] = "." /\ (Len(tok) = 1 \/ ~IsDigit(tok[2]))
            tooBig(tok) == tok[1] = BigRun
        IN  /\ boundaries[1] = 0
            /\ NonDecreasing(boundaries)
            /\ Len(boundaries) = Len(ents) + 1
            /\ \A k \in 1..Len(ents) :
                   LET tok == Token(ents[k])
                       step == boundaries[k + 1] - boundaries[k]
                   IN  /\ (noNumber(tok) \/ tooBig(tok)) => step = 0
                       /\ ~(noNumber(tok) \/ tooBig(tok)) => step = parseFloat(tok).v
            /\ (Len(ents) = 0) => boundaries = <<0>>

\* C7 witness: a manifest with two ten-second entries, an entry that reads as
\* no number between them and an #EXTINF line that is not an entry.
C7_Witness ==
    /\ stage = "parsed"
    /\ m3u8 = <<L10, LDot, LBad, L10>>
    /\ boundaries = <<0, 10 * Sec, 10 * Sec, 20 * Sec>>

\* C8 as stated: a request inside the asset snaps to exactly [largest
\* boundary <= start, smallest boundary >= end) and the duration is the
\* snapped end minus the snapped start.
C8_AsStated ==
    (stage = "snapped" /\ 0 <= qStart.v /\ qEnd.v <= window.total) =>
        /\ window.sSnap = LargestLE(boundaries, qStart.v)
        /\ window.eSnap = SmallestGE(boundaries, qEnd.v)
        /\ window.dur = window.eSnap - window.sSnap

\* C8: a request inside the asset (0 <= start < end <= total) snaps to
\* [largest boundary <= min(start, max(0, total - 0.001)), smallest boundary
\* >= end) and the duration is the snapped end minus the snapped start
\* rounded to the nearest thousandth of a second.
C8_InsideAsset ==
    (stage = "snapped" /\ 0 <= qStart.v /\ qEnd.v <= window.total) =>
        /\ window.sSnap =
               LargestLE(boundaries, Min(qStart.v, Max(0, window.total - Milli)))
        /\ window.eSnap = SmallestGE(boundaries, qEnd.v)
        /\ window.dur % Milli = 0
        /\ 2 * (window.dur - (window.eSnap - window.sSnap)) <= Milli
        /\ 2 * ((window.eSnap - window.sSnap) - window.dur) < Milli

\* C8 witness: boundaries [0,10,20,30,40], request [12,22], window [10,30),
\* duration 20.
C8_Witness ==
    /\ stage = "snapped"
    /\ boundaries = <<0, 10 * Sec, 20 * Sec, 30 * Sec, 40 * Sec>>
    /\ qStart = Num(12 * Sec) /\ qEnd = Num(22 * Sec)
    /\ window.sSnap = 10 * Sec /\ window.eSnap = 30 * Sec
    /\ window.dur = 20 * Sec

\* C9: a request whose start and end both fall strictly inside one segment
\* snaps to a window that covers that whole segment.
C9_CoversSegment ==
    stage = "snapped" =>
        \A i \in 1..(Len(boundaries) - 1) :
            (boundaries[i] < qStart.v /\ qEnd.v < boundaries[i + 1]) =>
                (window.sSnap <= boundaries[i] /\ window.eSnap >= boundaries[i + 1])

\* C9 witness: a request strictly inside a segment that is neither the first
\* nor the last one.
C9_Witness ==
    /\ stage = "snapped"
    /\ \E i \in 2..(Len(boundaries) - 2) :
           /\ boundaries[i] < qStart.v /\ qEnd.v < boundaries[i + 1]
           /\ window.sSnap = boundaries[i] /\ window.eSnap = boundaries[i + 1]

\* C10: a request whose end exceeds the total duration has the total as its
\* snapped end, and the snapped start and end always lie in [0, total].
C10_Clamped ==
    stage = "snapped" =>
        /\ (qEnd.v > window.total => window.eSnap = window.total)
        /\ 0 <= window.sSnap /\ window.sSnap <= window.total
        /\ 0 <= window.eSnap /\ window.eSnap <= window.total

\* C10 witness: request [5,100] on the 40-second manifest, snapped end 40.
C10_Witness ==
    /\ stage = "snapped"
    /\ window.total = 40 * Sec
    /\ qStart = Num(5 * Sec) /\ qEnd = Num(100 * Sec)
    /\ window.eSnap = 40 * Sec

\* ------------------------------------------------------------- claims on the job machine
Terminal == {"done", "error", "canceled"}

\* the status of the job of request r, "absent" while the registry has none
StatusOf(J, r) ==
    IF loc[r].jobId \in DOMAIN J /\ "status" \in DOMAIN J[loc[r].jobId]
    THEN J[loc[r].jobId].status
    ELSE "absent"

\* C1: once a job's status is done, error or canceled, no step of any /clip
\* callback changes it again.
C1_TerminalStays ==
    [][\A id \in DOMAIN jobs :
          jobs[id].status \in Terminal
              => id \in DOMAIN jobs' /\ jobs'[id].status = jobs[id].status]_vars

\* the edges of starting -> running -> {ready -> done | done} | error | canceled,
\* a job being created in any of its states
StatusEdge(a, b) ==
    \/ a = b
    \/ a = "absent"
    \/ a = "starting" /\ b \in {"running", "error", "canceled"}
    \/ a = "running" /\ b \in {"ready", "done", "error", "canceled"}
    \/ a = "ready" /\ b \in {"done", "error", "canceled"}

\* C2: every change of a job's status follows an edge of the machine
\* starting -> running -> {ready -> done | done} | error | canceled, and a job
\* is 'ready' only in buffered delivery after the tool exited successfully with
\* the complete artifact written.
C2_StatusPath ==
    /\ [][\A r \in Reqs : StatusEdge(StatusOf(jobs, r), StatusOf(jobs', r))]_vars
    /\ [](\A r \in Reqs :
             StatusOf(jobs, r) = "ready"
                 => /\ loc[r].wantSolid
                    /\ ff[r].st = "exited"
                    /\ fsx[r].tmp = "complete")

\* C3: in streamed delivery, once the caller has disconnected the tool process
\* is no longer running, the job is canceled and stays canceled, and a request
\* that had delivered nothing gets no response.
C3_StreamedCancel ==
    \A r \in Reqs :
        (phase[r] = "serving" /\ ~loc[r].wantSolid /\ aborted[r])
            => /\ ff[r].st # "running"
               /\ StatusOf(jobs, r) = "canceled"
               /\ (~loc[r].hadData => res[r].sentCode = 0)

\* C4: in buffered delivery the caller's disconnect leaves the tool process as
\* it is: no 'aborted' event changes the state of a buffered job's process.
C4_BufferedAbortKeepsTool ==
    [][\A r \in Reqs :
          (phase[r] = "serving" /\ loc[r].wantSolid /\ ~aborted[r] /\ aborted'[r])
              => ff'[r].st = ff[r].st]_vars

\* ------------------------------------------------------------- claims on progress
\* the job of request r
JobOf(r) == jobs[loc[r].jobId]
HasJob(J, r) == loc[r].jobId \in DOMAIN J /\ "progress" \in DOMAIN J[loc[r].jobId]

\* C11: every value of a job's progress.pct is a number in [0,100] and no step
\* lowers it.
C11_PctMonotone ==
    /\ [](\A r \in Reqs : HasJob(jobs, r) => JobOf(r).progress.pct \in 0..100)
    /\ [][\A r \in Reqs :
             (HasJob(jobs, r) /\ HasJob(jobs', r))
                 => jobs'[loc[r].jobId].progress.pct >= JobOf(r).progress.pct]_vars

RECURSIVE CompleteLines(_)
\* the trimmed lines of a text that are ended by "\n"
CompleteLines(s) ==
    LET idx == IndexOfNL(s, 1)
    IN  IF idx = 0 THEN << >>
        ELSE <<Trim(SubSeq(s, 1, idx - 1))>> \o CompleteLines(SubSeq(s, idx + 1, Len(s)))

\* the completion marker stands on a complete line of the text
MarkerSeen(s) ==
    \E i \in 1..Len(CompleteLines(s)) : CompleteLines(s)[i] = <<"progress", "=", "end">>

\* out_time_ms=<value> with no further "="
IsTimeLine(line) ==
    /\ Len(line) >= 2
    /\ line[1] = "out_time_ms" /\ line[2] = "="
    /\ \A i \in 3..Len(line) : line[i] # "="

\* the value of the last out_time_ms line of the text, 0 when it has none or
\* the value is no number
LastTimeMs(s) ==
    LET ls == SelectSeq(CompleteLines(s), IsTimeLine)
        n == NumberOf(SubSeq(ls[Len(ls)], 3, Len(ls[Len(ls)])))
    IN  IF ls = << >> THEN 0 ELSE IF isFinite(n) THEN n.v ELSE 0

\* ms as a percentage of a duration of dur ticks, rounded half up, within
\* [0,99]
ClampedPct(ms, dur) ==
    LET durMs == dur \div Milli
    IN  IF 200 * ms < durMs THEN 0
        ELSE IF 200 * ms >= 197 * durMs THEN 99
        ELSE CHOOSE q \in 1..98 :
                 (2 * q - 1) * durMs <= 200 * ms /\ 200 * ms < (2 * q + 1) * durMs

C13_WatchdogOnce ==
    [][\A r \in Reqs :
          /\ loc[r].watchdog = "fired" => loc'[r].watchdog = "fired"
          /\ (loc[r].watchdog # "fired" /\ loc'[r].watchdog = "fired")
                 => /\ loc[r].watchdog = "armed"
                    /\ ~loc[r].hadData
                    /\ BytesOrZero(jobs, loc[r].jobId) = 0
                    /\ res[r].body = 0
          /\ (loc[r].hadData /\ ~aborted'[r] /\ ff[r].st = "running")
                 => ff'[r].st # "killed"]_vars

\* C13 witness: the timer fired on a job without output and killed its tool,
\* the client still being there.
C13_Witness ==
    \E r \in Reqs :
        /\ loc[r].watchdog = "fired"
        /\ ~loc[r].hadData
        /\ ~aborted[r]
        /\ ff[r].st = "killed"

\* C14: the watchdog exists only in streamed delivery; once it has fired the
\* tool is no longer running, and when the tool's end has been handled the job
\* is in status error and the caller was answered 500.
C14_WatchdogStall ==
    \A r \in Reqs :
        /\ loc[r].wantSolid => loc[r].watchdog = "none"
        /\ (phase[r] = "serving" /\ loc[r].watchdog = "fired")
               => /\ ~loc[r].wantSolid
                  /\ ff[r].st # "running"
                  /\ ff[r].st \in {"exited", "failed"}
                         => /\ StatusOf(jobs, r) = "error"
                            /\ res[r].sentCode = 500

\* ------------------------------------------------------------- claims on failures
\* the request of r has run its handler to its end, no callback is pending and
\* its tool is gone
RequestOver(r) ==
    /\ phase[r] \in {"closed", "serving"}
    /\ phase[r] = "serving" =>
           /\ ff[r].st \in {"exited", "failed"}
           /\ fsx[r].wait = "none"
           /\ fsx[r].rd # "open"
           /\ StatusOf(jobs, r) \in Terminal

\* C15: once a buffered request is over, on whatever outcome, its scratch file
\* is not in storage.
C15_ScratchRemoved ==
    \A r \in Reqs :
        (loc[r].wantSolid /\ RequestOver(r)) => fsx[r].tmp \in {"none", "removed"}

\* C16: when the playlist fetch returns a status that is not ok, the job is in
\* status error with the fetch message, the caller is answered 502 with it,
\* and no tool process exists for the request.
C16_FetchNotOk ==
    \A r \in Reqs :
        rq[r].origin = "http"
            => /\ phase[r] = "closed"
               /\ StatusOf(jobs, r) = "error"
               /\ jobs[loc[r].jobId].error = PlaylistMsg
               /\ res[r].sentCode = 502 /\ res[r].text = PlaylistMsg /\ res[r].ended
               /\ ff[r].st = "none"

\* C16 witness: a request whose playlist fetch came back not ok, answered 502.
C16_Witness ==
    \E r \in Reqs :
        rq[r].origin = "http" /\ res[r].sentCode = 502 /\ StatusOf(jobs, r) = "error"

\* C17: when the playlist fetch itself fails, the caller is answered 502 and
\* the job is in status error.
C17_FetchUnreachable ==
    \A r \in Reqs :
        rq[r].origin = "unreachable"
            => res[r].sentCode = 502 /\ StatusOf(jobs, r) = "error"

\* the request of r lacks its code, or has a start or end that is no finite
\* number, or an end that is not after its start
Malformed(r) ==
    \/ rq[r].code = << >>
    \/ rq[r].start.k # "num"
    \/ rq[r].end.k # "num"
    \/ rq[r].end.v <= rq[r].start.v

\* the request of r was answered 400 with nothing fetched and nothing spawned,
\* and its job is recorded in status error
Rejected400(r) ==
    /\ phase[r] = "closed"
    /\ res[r].sentCode = 400 /\ res[r].ended
    /\ rq[r].origin = "none"
    /\ ff[r].st = "none"
    /\ StatusOf(jobs, r) = "error"

MAX_LEN == 600

\* C19: no request whose window end - start exceeds the maximum clip length
\* gets past the request check.
C19_LengthCap ==
    stage = "snapped" => toFixed3(qEnd.v - qStart.v) <= MAX_LEN * Sec

\* ------------------------------------------------------------- claims on the exit message
NotCut(c) == c # "?"

RECURSIVE Chars(_)
\* the number of characters of a text
Chars(s) == IF s = << >> THEN 0 ELSE CharLen(Head(s)) + Chars(Tail(s))

\* the number of characters of a text that may end in cut characters
TextChars(t) ==
    Cardinality({i \in DOMAIN t : t[i] = "?"}) + Chars(SelectSeq(t, NotCut))

Committed200(r) == res[r].headersSent /\ res[r].sentCode = 200

\* C22: once the response went out with status 200, no step changes the
\* status sent, writes an error text or throws; and once the exit of a
\* streamed tool whose output had started is handled, the response is ended.
C22_CommittedStays ==
    /\ [][\A r \in Reqs :
             Committed200(r)
                 => /\ res'[r].sentCode = 200
                    /\ res'[r].text = << >>
                    /\ thrown'[r] = thrown[r]]_vars
    /\ [](\A r \in Reqs :
             (phase[r] = "serving" /\ ~loc[r].wantSolid /\ Committed200(r)
                  /\ ff[r].st = "exited")
                 => res[r].ended)

\* C22 witness: a streamed response went out with 200, the caller then went
\* away, the tool was killed, and at its exit the response was ended with
\* status 200 and no error text.
C22_Witness ==
    \E r \in Reqs :
        /\ phase[r] = "serving" /\ ~loc[r].wantSolid
        /\ Committed200(r)
        /\ ff[r].st = "exited"
        /\ aborted[r]
        /\ res[r].ended /\ res[r].text = << >>
        /\ ~thrown[r]

\* C23: a job is in status done only when all bytes went to the caller: in
\* streamed delivery no chunk the tool wrote is still unread on its output
\* stream when the job is done or the response ended; in buffered delivery
\* the scratch file was read to its end.
C23_DoneAfterAllBytes ==
    \A r \in Reqs :
        phase[r] = "serving" =>
            IF loc[r].wantSolid
            THEN StatusOf(jobs, r) = "done" => fsx[r].rd = "closed" /\ fsx[r].left = 0
            ELSE (StatusOf(jobs, r) = "done" \/ (res[r].ended /\ res[r].sentCode = 200))
                     => ff[r].out = << >>

\* ------------------------------------------------------------- claims on the progress streams
\* the Set of job id j holds connection c
Attached(c, j) == InSet(ClientsOf(sseClients, j), c)

\* C24: a job that is done, error or canceled and has no subscriber is in the
\* end removed from the job map, and its Set from the subscriber map.
C24_Evicted ==
    \A j \in MutJobs :
        (j \in DOMAIN jobs /\ jobs[j].status \in Terminal
             /\ ClientsOf(sseClients, j) = << >>)
            ~> (j \notin DOMAIN jobs /\ j \notin DOMAIN sseClients)

\* the writes the mutations of a log make: endJob pushes its snapshot twice
RECURSIVE Expand(_)
Expand(log) ==
    IF log = << >> THEN << >>
    ELSE (IF Head(log).n = 2 THEN <<Head(log).data, Head(log).data>>
          ELSE <<Head(log).data>>) \o Expand(Tail(log))

\* C25: every mutation of a job appends the whole job as it is after the
\* mutation, serialized, to what each connection attached to that id and
\* able to take writes has received; so a connection holds, after the
\* snapshot of its attach, the snapshots of the mutations made since, in the
\* order they were made.
C25_PushOnMutation ==
    /\ [][\A j \in StreamIds :
             mutLog'[j] # mutLog[j]
                 => \A c \in SseConns :
                        (Attached(c, j) /\ sse[c].st = "open")
                            => \E n \in 1..2 :
                                   sse'[c].got =
                                       sse[c].got \o [i \in 1..n |-> stringify(jobs'[j])]]_vars
    /\ [](\A c \in SseConns :
             sse[c].st = "open"
                 => Tail(sse[c].got) =
                        Expand(SubSeq(mutLog[sse[c].job], sse[c].from + 1,
                                      Len(mutLog[sse[c].job]))))

\* C25 witness: two open connections on job a, one attached after the first
\* mutation, each holding the snapshots of at least two mutations.
C25_Witness ==
    /\ sse["s1"].st = "open" /\ sse["s2"].st = "open"
    /\ sse["s1"].job = "a" /\ sse["s2"].job = "a"
    /\ sse["s1"].from = 0 /\ sse["s2"].from = 1
    /\ Len(mutLog["a"]) = 3
    /\ Len(sse["s2"].got) >= 3
    /\ sse["s1"].got[Len(sse["s1"].got)] = sse["s2"].got[Len(sse["s2"].got)]

\* C26: the request of a progress stream writes one snapshot at once: the
\* job as the registry holds it at that moment, or id and status unknown
\* when the registry has no such job; it stays the first thing received.
C26_SnapshotOnAttach ==
    /\ [][\A c \in SseConns :
             (sse[c].st = "idle" /\ sse'[c].st # "idle")
                 => sse'[c].got =
                        <<IF sse'[c].job \in DOMAIN jobs
                          THEN stringify(jobs[sse'[c].job])
                          ELSE [id |-> sse'[c].job, status |-> "unknown"]>>]_vars
    /\ [](\A c \in SseConns :
             sse[c].st # "idle"
                 => /\ sse[c].got # << >>
                    /\ sse[c].got[1] =
                           IF sse[c].from = 0
                           THEN [id |-> sse[c].job, status |-> "unknown"]
                           ELSE mutLog[sse[c].job][sse[c].from].data)

\* C26 witness: one connection attached to job a after its second mutation
\* and then received a third, another attached to an id the registry lacks.
C26_Witness ==
    \E c, d \in SseConns :
        /\ sse[c].job = "a" /\ sse[c].from = 2 /\ Len(sse[c].got) >= 2
        /\ sse[c].got[1] = mutLog["a"][2].data
        /\ sse[d].job = "zz" /\ sse[d].got = <<[id |-> "zz", status |-> "unknown"]>>

\* C27: when a mutation pushes while a connection of the job throws on
\* write, every other connection of the job that takes writes receives the
\* snapshot of that mutation, the throw is caught, and the job is mutated.
C27_Isolation ==
    [][\A j \in StreamIds :
          (mutLog'[j] # mutLog[j]
               /\ \E b \in SseConns : Attached(b, j) /\ sse[b].st = "broken")
              => /\ Len(mutLog'[j]) = Len(mutLog[j]) + 1
                 /\ j \in DOMAIN jobs'
                 /\ mutLog'[j][Len(mutLog'[j])].data = stringify(jobs'[j])
                 /\ \A b \in SseConns :
                        (Attached(b, j) /\ sse[b].st = "broken")
                            => sse'[b].threwAt = Len(mutLog'[j])
                 /\ \A c \in SseConns :
                        (Attached(c, j) /\ sse[c].st = "open")
                            => /\ Len(sse'[c].got)
                                      = Len(sse[c].got) + mutLog'[j][Len(mutLog'[j])].n
                               /\ sse'[c].got[Len(sse'[c].got)] = stringify(jobs'[j])]_vars

\* C27 witness: s1 entered the Set of job a before s2, its write threw at
\* the third mutation, and s2 holds the snapshot of that mutation.
C27_Witness ==
    /\ sseClients = [a |-> <<"s1", "s2">>]
    /\ sse["s1"].st = "broken" /\ sse["s1"].threwAt = 3
    /\ sse["s2"].st = "open" /\ sse["s2"].from < 3
    /\ sse["s2"].got[Len(sse["s2"].got)] = mutLog["a"][3].data

\* ------------------------------------------------------------- claims on cancellation and delivery
\* a cancellation trigger has acted on request r
Cancelled(r) == aborted[r] \/ loc[r].watchdog = "fired"

\* C28: the caller's disconnect and the watchdog are safe in any order and
\* with the exit of the tool: the step of either trigger throws nothing,
\* also when the process is no longer running, and once a trigger has acted
\* and the job is done, error or canceled, its status changes no more.
C28_CancelOnce ==
    [][\A r \in Reqs :
          /\ (aborted'[r] # aborted[r] \/ loc'[r].watchdog # loc[r].watchdog)
                 => thrown'[r] = thrown[r]
          /\ (phase[r] = "serving" /\ Cancelled(r) /\ StatusOf(jobs, r) \in Terminal)
                 => StatusOf(jobs', r) = StatusOf(jobs, r)]_vars

\* the user agent names one of the devices, in whatever letter case
NamesDevice(ua) ==
    \E i \in 1..Len(ua) :
        ua[i] \in {"iPhone", "IPHONE", "iphone", "iPad", "ipad", "iPod", "IPOD"}

\* C29: buffered delivery is chosen exactly when SOLID_MP4 is "1", or the
\* user agent names iPhone, iPad or iPod, or the solid parameter is the one
\* string "1"; streamed delivery in every other case.
C29_ModeSelection ==
    sel.chosen
        => (sel.wantSolid
                <=> \/ sel.SOLID_MP4 = <<"1">>
                    \/ NamesDevice(sel.ua)
                    \/ sel.solid = <<"1">>)

\* C29 witness: buffered delivery was chosen for a lower-case ipad user agent
\* alone, with SOLID_MP4 set to a value that is not "1" and no solid parameter.
C29_Witness ==
    /\ sel.chosen /\ sel.wantSolid
    /\ sel.ua = <<"ipad">>
    /\ sel.SOLID_MP4 = <<"true">>
    /\ sel.solid = Unset

\* C30: in buffered delivery the Content-Length sent and the job's
\* transfer.totalBytes are the size of the scratch file the tool left, and a
\* job that is done has transfer.bytes equal to transfer.totalBytes.
C30_DeclaredSize ==
    \A r \in Reqs :
        (phase[r] = "serving" /\ loc[r].wantSolid) =>
            /\ res[r].length # Null
                   => /\ res[r].length = fsx[r].size
                      /\ jobs[loc[r].jobId].transfer.totalBytes = fsx[r].size
            /\ StatusOf(jobs, r) = "done"
                   => /\ res[r].length = fsx[r].size
                      /\ jobs[loc[r].jobId].transfer.bytes
                             = jobs[loc[r].jobId].transfer.totalBytes
                      /\ jobs[loc[r].jobId].transfer.totalBytes = fsx[r].size

\* C30 witness: a buffered job is done, its file of at least 3 bytes was
\* declared and counted in full.
C30_Witness ==
    \E r \in Reqs :
        /\ phase[r] = "serving" /\ loc[r].wantSolid
        /\ StatusOf(jobs, r) = "done"
        /\ fsx[r].size >= 3
        /\ res[r].length = fsx[r].size
        /\ jobs[loc[r].jobId].transfer.bytes = fsx[r].size

\* ------------------------------------------------------------- claims on the status feed
RECURSIVE FoldLines(_, _, _)
\* the job map after the lines were handled one after the other
FoldLines(J, dur, lines) ==
    IF lines = << >> THEN J
    ELSE FoldLines(progLine(J, "a", dur, Head(lines)), dur, Tail(lines))

RECURSIVE AfterLastNL(_)
\* what follows the last "\n" of a text
AfterLastNL(s) ==
    IF IndexOfNL(s, 1) = 0 THEN s
    ELSE AfterLastNL(SubSeq(s, IndexOfNL(s, 1) + 1, Len(s)))

\* the part of the text read so far
FedText == SubSeq(feed.text, 1, feed.pos)

\* C31: however the status text is cut into chunks, after any part of it was
\* read the job is what handling the complete lines of that part, each as a
\* whole and in their order, makes of it, and the unfinished last line waits
\* in the buffer.
C31_ChunkingIrrelevant ==
    /\ feed.jobs = FoldLines(FeedJob(feed.dur), feed.dur, CompleteLines(FedText))
    /\ feed.progBuf = AfterLastNL(FedText)

\* C31 witness: the text of a time line of 3000 and the completion marker was
\* read to its end, in chunks of any lengths, and the job holds the time of
\* the whole line and percent 100.
C31_Witness ==
    /\ feed.pos = Len(feed.text) /\ feed.pos > 0
    /\ feed.text[1] = "out_time_ms" /\ feed.text[3] = "3"
    /\ feed.dur = 20 * Sec
    /\ feed.jobs["a"].progress.timeMs = 3000
    /\ feed.jobs["a"].progress.pct = 100

\* ------------------------------------------------------------- claims on the tool process
\* the tool of request r runs and no signal was sent to it
Alive(r) == ff[r].st = "running"

\* C32: a /clip request has at most one tool process: none when the request
\* is answered before the spawn (bad parameters, playlist not fetched), a
\* process that exited, was killed or failed to start is never started
\* again, and when the job is done, error or canceled the process has
\* exited or was sent its kill.
C32_OneProcess ==
    /\ [][\A r \in Reqs :
             /\ ff[r].st # "none" => ff'[r].st # "none"
             /\ ff[r].st \in {"killed", "exited", "failed"} => ff'[r].st # "running"
             /\ (ff[r].st = "none" /\ ff'[r].st # "none")
                    => (phase[r] = "fetch" /\ rq'[r].origin = "ok")]_vars
    /\ [](\A r \in Reqs :
             /\ phase[r] = "closed" => ff[r].st = "none"
             /\ StatusOf(jobs, r) \in Terminal => ~Alive(r))

\* C32 witness: the caller went away while the tool ran; the job is canceled
\* and the one process of the request was sent its kill.
C32_Witness ==
    \E r \in Reqs :
        /\ phase[r] = "serving" /\ aborted[r]
        /\ StatusOf(jobs, r) = "canceled"
        /\ ff[r].st = "killed"

\* request r is in flight: accepted, and its tool has not exited
InFlight(r) ==
    \/ phase[r] = "fetch"
    \/ phase[r] = "serving" /\ ff[r].st = "running"

\* C33: two requests that are in flight at the same time have different job
\* ids, whether the ids were made by the server or passed by the callers,
\* so neither writes the record the other reads.
C33_OwnRecord ==
    \A r, q \in Reqs :
        (r # q /\ InFlight(r) /\ InFlight(q)) => loc[r].jobId # loc[q].jobId

\* ------------------------------------------------------------- claims on the response, continued
\* C34: once the response of a request was ended, no later callback of that
\* request sets its status, sets a header (which would throw) or writes to
\* its body.
C34_OneResponse ==
    [][\A r \in Reqs :
          res[r].ended
              => /\ res'[r].statusCode = res[r].statusCode
                 /\ res'[r].sentCode = res[r].sentCode
                 /\ res'[r].text = res[r].text
                 /\ res'[r].body = res[r].body
                 /\ thrown'[r] = thrown[r]]_vars

\* C35: a step in which the exit of the tool is handled with a code that is
\* not 0, or with a signal, never leaves the job in status done; so a job is
\* done only after a successful exit.
C35_DoneOnlyAfterSuccess ==
    [][\A r \in Reqs :
          (phase[r] = "serving" /\ ff[r].st \in {"running", "killed"}
               /\ FfExitHandler(r, FALSE))
              => StatusOf(jobs', r) # "done"]_vars

\* the chunks of the tool's standard output the handlers of r have received
Received(r) == ff[r].nOut - Len(ff[r].out)

\* C36: in streamed delivery the response goes out with 200 exactly when a
\* chunk of output was received, and sentHeaders equals hadData in every
\* state; in buffered delivery a response goes out with 200 only after the
\* tool exited with code 0 and the scratch file was stat-ed.
C36_OkOnlyWithMedia ==
    \A r \in Reqs :
        phase[r] = "serving" =>
            IF loc[r].wantSolid
            THEN Committed200(r)
                     => /\ ff[r].st = "exited"
                        /\ fsx[r].tmp \in {"complete", "removed"}
                        /\ fsx[r].wait # "stat"
                        /\ res[r].length = fsx[r].size
            ELSE /\ loc[r].sentHeaders = loc[r].hadData
                 /\ loc[r].hadData <=> Received(r) > 0
                 /\ Committed200(r) <=> Received(r) > 0

\* C37: in streamed delivery every chunk read from the tool's standard
\* output is written to the response once, as it is read: the step that
\* takes the chunk at the head of the stream adds exactly its length to the
\* body of the response of a caller that is still there.
C37_BodyIsOutput ==
    [][\A r \in Reqs :
          (phase[r] = "serving" /\ ~loc[r].wantSolid /\ ~aborted[r]
               /\ ff[r].out # << >> /\ ff'[r].out = Tail(ff[r].out)
               /\ ff'[r].nOut = ff[r].nOut)
              => res'[r].body = res[r].body + Head(ff[r].out)]_vars

\* C38: the job's transfer.bytes never decreases and is in every state the
\* number of bytes written to the response of its request.
C38_BytesAreSent ==
    /\ [][\A r \in Reqs :
             (HasJob(jobs, r) /\ phase[r] = "serving" /\ phase'[r] = "serving")
                 => BytesOrZero(jobs', loc[r].jobId) >= BytesOrZero(jobs, loc[r].jobId)]_vars
    /\ [](\A r \in Reqs :
             (phase[r] = "serving" /\ ~aborted[r])
                 => BytesOrZero(jobs, loc[r].jobId) = res[r].body)

\* ------------------------------------------------------------- claims on termination
\* C39: every job that is in status running is later done, error or
\* canceled, and no job stays in running or ready for ever, when the tool
\* emits 'exit' or 'error' in the end and pending callbacks run in the end.
C39_EventuallyTerminal ==
    \A r \in Reqs :
        /\ (StatusOf(jobs, r) = "running") ~> (StatusOf(jobs, r) \in Terminal)
        /\ ~<>[](StatusOf(jobs, r) \in {"running", "ready"})

\* what a patch does not name: the other fields of the record and, inside a
\* patched sub-object, its other sub-fields
FrameOfPatch(j, patch) ==
    /\ DOMAIN jobs'[j] = DOMAIN jobs[j]
    /\ \A k \in DOMAIN jobs[j] \ DOMAIN patch : jobs'[j][k] = jobs[j][k]
    /\ \A k \in DOMAIN jobs[j] \cap DOMAIN patch :
          /\ DOMAIN jobs'[j][k] = DOMAIN jobs[j][k]
          /\ \A f \in DOMAIN jobs[j][k] \ DOMAIN patch[k] : jobs'[j][k][f] = jobs[j][k][f]

\* a transfer or progress patch leaves everything it does not name unchanged
PatchKeepsTheRest ==
    \A j \in MutJobs : \A patch \in Patches(jobs, j) :
        (SsePatchJob(j) /\ jobs' = patchJob(jobs, j, patch)) => FrameOfPatch(j, patch)

\* ending a job as error or canceled leaves its percent and its transfer
\* counters unchanged
EndKeepsProgress ==
    \A j \in MutJobs :
        (SseEndJob(j) /\ jobs'[j].status \in {"error", "canceled"})
            => /\ jobs'[j].progress.pct = jobs[j].progress.pct
               /\ jobs'[j].transfer = jobs[j].transfer

\* subscribing to a progress stream, and its end, change no job record
ReadsKeepJobs ==
    \A c \in SseConns : (SseAttach(c) \/ SseBreak(c) \/ SseClose(c)) => jobs' = jobs

\* C40: a job mutation changes only what it names: a transfer or progress
\* patch leaves status, error, the requested and snapped windows and the other
\* sub-fields unchanged; ending a job as error or canceled leaves its progress
\* percent and its transfer counters unchanged; and the read-only progress
\* endpoints never change a job record
C40_OnlyWhatIsNamed ==
    [][PatchKeepsTheRest /\ EndKeepsProgress /\ ReadsKeepJobs]_vars

\* the parts of C40 that concern patches and reads
C40_PatchAndReadFrame == [][PatchKeepsTheRest /\ ReadsKeepJobs]_vars

====
